---------------------------- MODULE Spec2Model ----------------------------
(***************************************************************************)
(* Conversion orchestration engine of the universal file processor:       *)
(* ConverterFactory (converters/__init__.py), FileDetector                 *)
(* (core/file_detector.py), ToolChecker (core/tool_checker.py), the        *)
(* built-in converters (converters/*_converter.py) and the batch scan      *)
(* (services/batch_converter.py).                                          *)
(*                                                                         *)
(* Ten specifications share the variables below:                          *)
(*   SpecRegistry  register / unregister / reset / get_converter calls     *)
(*   SpecDetect    FileDetector.detect applied to a path                   *)
(*   SpecConvert   one convert() call of a built-in converter              *)
(*   SpecBatch     BatchFileConverter._convert_batch over a list of files  *)
(*   SpecTools     the ToolChecker instances of one process                *)
(*   SpecSettings  the tool arguments the converters build from settings   *)
(*   SpecImage     ImageConverter from Image.open to img.save              *)
(*   SpecThreads   the registry called from two threads, by statement      *)
(*   SpecSingle    SingleFileConverter.run, one run of the dialogue        *)
(*   SpecWorkflows a batch run or a single-file run                        *)
(***************************************************************************)
EXTENDS Naturals, Integers, Sequences, FiniteSets, TLC

VARIABLES
    converters,         \* ConverterFactory._converters (dict: type -> class)
    custom_converters,  \* ConverterFactory._custom_converters (dict: type -> class)
    reg_call,           \* the last registry call and what it returned
    reg_before,         \* _custom_converters as that call found it
    det_path,           \* detect: the path handed to detect (stem, suffix)
    det_result,         \* detect: the tuple detect returned
    conv_job,           \* the arguments and environment of the last convert() call
    conv_res,           \* what that call returned, and its effects
    clock,              \* wall clock (time.time()), seconds
    files,              \* batch: the submitted files
    output_folder,      \* batch: the folder picked for the results
    written,            \* batch: the files conversions have written
    format_config,      \* batch: type -> output extension
    batch_env,          \* batch: installed commands / Pillow, seen by the run
    tool_cache,         \* batch: ToolChecker._cache
    idx,                \* batch: files handled so far
    success_count,      \* batch
    failed_count,       \* batch
    skipped_count,      \* batch
    progress,           \* batch: progress.update(task, advance=1) calls
    fate,               \* batch: per handled file, the branch that decided it
    invocations,        \* batch: the files converter.convert() was called for, in call order
    bpc,                \* batch: "idle" | "scan" | "report" | "aborted"
    checkers,           \* the ToolChecker of each service: owner -> _cache
    tool_env,           \* commands on the search path now, Pillow importable
    tool_call,          \* the last availability query and its answer
    first_answer,       \* tool -> the first answer the process gave for it
    env_changes,        \* installs and removals so far
    built,              \* the tool arguments a converter built from settings
    img_call,           \* the image ImageConverter opened and what it saved
    threads,            \* thread -> the registry call it is in, and where
    single              \* the run of SingleFileConverter: where it is, what it has

regVars == <<converters, custom_converters, reg_call, reg_before>>
detVars == <<det_path, det_result>>
convVars == <<conv_job, conv_res, clock>>
batchVars == <<files, output_folder, written, format_config, batch_env, tool_cache, idx, success_count,
               failed_count, skipped_count, progress, fate, invocations, bpc>>
toolVars == <<checkers, tool_env, tool_call, first_answer, env_changes>>
vars == <<regVars, detVars, convVars, batchVars, toolVars, built, img_call, threads, single>>

\* a dict lookup that finds nothing
None == "None"

\* What a call returns: None, a bool, a converter instance, or an exception
\* that leaves the call.
RetNone == <<"None">>

RetBool(b) == <<"bool", b>>

RetRaise(e) == <<"raise", e>>

InstanceOf(c) == <<"instance", c>>

(***************************************************************************)
(* Dictionaries: a Python dict is a function whose DOMAIN is its key set.  *)
(***************************************************************************)
DictGet(d, k) == IF k \in DOMAIN d THEN d[k] ELSE None

DictSet(d, k, v) == [x \in DOMAIN d \cup {k} |-> IF x = k THEN v ELSE d[x]]

DictDel(d, k) == [x \in DOMAIN d \ {k} |-> d[x]]

EmptyDict == [x \in {} |-> None]

(***************************************************************************)
(* Converter classes.  What a caller may hand to register_converter:       *)
(* concrete subclasses of BaseConverter, the abstract BaseConverter itself *)
(* (a subclass of itself whose instantiation raises TypeError), a class    *)
(* that does not inherit from BaseConverter, and a value that is no class. *)
(***************************************************************************)
BuiltinClasses == {"VideoConverter", "AudioConverter", "ImageConverter", "DocumentConverter"}

PluginClasses == {"PluginA", "PluginB"}

ConverterArgs == PluginClasses \cup {"DocumentConverter", "BaseConverter", "PlainClass", "NotAClass"}

IsClass(c) == c # "NotAClass"

IsSubclassOfBase(c) == c \in BuiltinClasses \cup PluginClasses \cup {"BaseConverter"}

\* converter_class() succeeds: BaseConverter has an abstract convert
Instantiable(c) == c \in BuiltinClasses \cup PluginClasses

\* ConverterFactory._converters, as the class body defines it
builtin_converters ==
    [t \in {"video", "audio", "image", "document"} |->
        CASE t = "video" -> "VideoConverter"
          [] t = "audio" -> "AudioConverter"
          [] t = "image" -> "ImageConverter"
          [] t = "document" -> "DocumentConverter"]

\* the file types the registry is called with
RegTypes == {"video", "document", "office", "custom"}

get_converter_builtin_first(custom, file_type) ==
    LET first == DictGet(converters, file_type)
        converter_class == IF first = None THEN DictGet(custom, file_type) ELSE first
    IN  IF converter_class # None /\ Instantiable(converter_class)
        THEN InstanceOf(converter_class)
        ELSE RetNone

\* ConverterFactory.get_converter
get_converter(custom, file_type) ==
    LET first == DictGet(custom, file_type)
        converter_class == IF first = None
                           THEN DictGet(converters, file_type)
                           ELSE first
    IN  IF converter_class # None
        THEN IF Instantiable(converter_class)
             THEN InstanceOf(converter_class)
             ELSE RetNone                    \* except Exception: return None
        ELSE RetNone

GetConverterCall ==
    /\ \E t \in RegTypes :
           /\ reg_call' = [op |-> "get", file_type |-> t, arg |-> None,
                           ret |-> get_converter(custom_converters, t)]
           /\ UNCHANGED custom_converters
    /\ reg_before' = custom_converters
    /\ UNCHANGED <<converters, detVars, convVars, batchVars, toolVars, built, img_call, threads, single>>

register_converter_first_wins ==
    /\ \E t \in RegTypes, c \in ConverterArgs :
           IF ~IsClass(c)
           THEN /\ reg_call' = [op |-> "register", file_type |-> t, arg |-> c, ret |-> RetRaise("TypeError")]
                /\ UNCHANGED custom_converters
           ELSE IF ~IsSubclassOfBase(c)
           THEN /\ reg_call' = [op |-> "register", file_type |-> t, arg |-> c, ret |-> RetBool(FALSE)]
                /\ UNCHANGED custom_converters
           ELSE /\ custom_converters' = IF t \in DOMAIN custom_converters
                                        THEN custom_converters
                                        ELSE DictSet(custom_converters, t, c)
                /\ reg_call' = [op |-> "register", file_type |-> t, arg |-> c, ret |-> RetBool(TRUE)]
    /\ reg_before' = custom_converters
    /\ UNCHANGED <<converters, detVars, convVars, batchVars, toolVars, built, img_call, threads, single>>

\* ConverterFactory.register_converter
register_converter ==
    /\ \E t \in RegTypes, c \in ConverterArgs :
           IF ~IsClass(c)
           THEN \* issubclass() raises TypeError, which nothing catches
                /\ reg_call' = [op |-> "register", file_type |-> t, arg |-> c, ret |-> RetRaise("TypeError")]
                /\ UNCHANGED custom_converters
           ELSE IF ~IsSubclassOfBase(c)
           THEN /\ reg_call' = [op |-> "register", file_type |-> t, arg |-> c, ret |-> RetBool(FALSE)]
                /\ UNCHANGED custom_converters
           ELSE /\ custom_converters' = DictSet(custom_converters, t, c)
                /\ reg_call' = [op |-> "register", file_type |-> t, arg |-> c, ret |-> RetBool(TRUE)]
    /\ reg_before' = custom_converters
    /\ UNCHANGED <<converters, detVars, convVars, batchVars, toolVars, built, img_call, threads, single>>

unregister_converter_any_tier ==
    /\ \E t \in RegTypes :
           IF t \in DOMAIN custom_converters
           THEN /\ custom_converters' = DictDel(custom_converters, t)
                /\ reg_call' = [op |-> "unregister", file_type |-> t, arg |-> None, ret |-> RetBool(TRUE)]
                /\ UNCHANGED converters
           ELSE IF t \in DOMAIN converters
           THEN /\ converters' = DictDel(converters, t)
                /\ reg_call' = [op |-> "unregister", file_type |-> t, arg |-> None, ret |-> RetBool(TRUE)]
                /\ UNCHANGED custom_converters
           ELSE /\ reg_call' = [op |-> "unregister", file_type |-> t, arg |-> None, ret |-> RetBool(FALSE)]
                /\ UNCHANGED <<converters, custom_converters>>
    /\ reg_before' = custom_converters
    /\ UNCHANGED <<detVars, convVars, batchVars, toolVars, built, img_call, threads, single>>

\* ConverterFactory.unregister_converter
unregister_converter ==
    /\ \E t \in RegTypes :
           IF t \in DOMAIN custom_converters
           THEN /\ custom_converters' = DictDel(custom_converters, t)
                /\ reg_call' = [op |-> "unregister", file_type |-> t, arg |-> None, ret |-> RetBool(TRUE)]
           ELSE /\ reg_call' = [op |-> "unregister", file_type |-> t, arg |-> None, ret |-> RetBool(FALSE)]
                /\ UNCHANGED custom_converters
    /\ reg_before' = custom_converters
    /\ UNCHANGED <<converters, detVars, convVars, batchVars, toolVars, built, img_call, threads, single>>

\* ConverterFactory.reset_custom_converters
reset_custom_converters ==
    /\ custom_converters' = EmptyDict
    /\ reg_call' = [op |-> "reset", file_type |-> None, arg |-> None, ret |-> RetNone]
    /\ reg_before' = custom_converters
    /\ UNCHANGED <<converters, detVars, convVars, batchVars, toolVars, built, img_call, threads, single>>

\* The type names in play, in the ascending order Python gives str values
\* (code point order): what sorted() compares by.
TypeNamesAscending == <<"audio", "custom", "document", "image", "office", "video">>

StrRank(t) == CHOOSE i \in DOMAIN TypeNamesAscending : TypeNamesAscending[i] = t

StrLess(a, b) == StrRank(a) < StrRank(b)

\* sorted(list(s)) of a set of type names
RECURSIVE sorted(_)
sorted(s) ==
    IF s = {} THEN <<>>
    ELSE LET least == CHOOSE x \in s : \A y \in s \ {x} : StrLess(x, y)
         IN  <<least>> \o sorted(s \ {least})

RetList(l) == <<"list", l>>

get_supported_types_builtin_first(builtin, custom) ==
    sorted(DOMAIN builtin) \o sorted(DOMAIN custom \ DOMAIN builtin)

\* ConverterFactory.get_supported_types
get_supported_types(builtin, custom) ==
    LET all_types == DOMAIN builtin \cup DOMAIN custom
    IN  sorted(all_types)

GetSupportedTypesCall ==
    /\ reg_call' = [op |-> "types", file_type |-> None, arg |-> None,
                    ret |-> RetList(get_supported_types(converters, custom_converters))]
    /\ UNCHANGED custom_converters
    /\ reg_before' = custom_converters
    /\ UNCHANGED <<converters, detVars, convVars, batchVars, toolVars, built, img_call, threads, single>>

NoCall == [op |-> "none", file_type |-> None, arg |-> None, ret |-> RetNone]

(***************************************************************************)
(* FileDetector.  A file name is a sequence of characters; an extension is *)
(* the sequence pathlib's suffix returns, the dot included.                *)
(***************************************************************************)
UpperChars == <<"A", "B", "C", "D", "E", "F", "G", "H", "I", "J", "K", "L", "M",
                "N", "O", "P", "Q", "R", "S", "T", "U", "V", "W", "X", "Y", "Z">>

LowerChars == <<"a", "b", "c", "d", "e", "f", "g", "h", "i", "j", "k", "l", "m",
                "n", "o", "p", "q", "r", "s", "t", "u", "v", "w", "x", "y", "z">>

LowerChar(c) ==
    IF \E i \in DOMAIN UpperChars : UpperChars[i] = c
    THEN LowerChars[CHOOSE i \in DOMAIN UpperChars : UpperChars[i] = c]
    ELSE c

UpperChar(c) ==
    IF \E i \in DOMAIN LowerChars : LowerChars[i] = c
    THEN UpperChars[CHOOSE i \in DOMAIN LowerChars : LowerChars[i] = c]
    ELSE c

\* str.lower()
Lower(s) == [i \in DOMAIN s |-> LowerChar(s[i])]

\* str.upper()
Upper(s) == [i \in DOMAIN s |-> UpperChar(s[i])]

\* every other letter in upper case
MixedCase(s) == [i \in DOMAIN s |-> IF i % 2 = 0 THEN UpperChar(s[i]) ELSE s[i]]

\* the table with .pdf listed by document as well as by ebook
FILE_TYPE_MAP_pdf_twice ==
    [t \in {"video", "audio", "image", "document", "office", "ebook"} |->
        CASE t = "video" ->
            [extensions |-> {<<".", "m", "p", "4">>,
                             <<".", "a", "v", "i">>,
                             <<".", "m", "k", "v">>,
                             <<".", "m", "o", "v">>,
                             <<".", "w", "e", "b", "m">>,
                             <<".", "f", "l", "v">>,
                             <<".", "w", "m", "v">>,
                             <<".", "m", "4", "v">>},
             tool |-> "FFmpeg", icon |-> "",
             formats |-> [k \in {"MP4", "AVI", "MKV", "WebM", "MP3"} |->
                CASE k = "MP4" -> "mp4"
             [] k = "AVI" -> "avi"
             [] k = "MKV" -> "mkv"
             [] k = "WebM" -> "webm"
             [] k = "MP3" -> "mp3"]]
          [] t = "audio" ->
            [extensions |-> {<<".", "m", "p", "3">>,
                             <<".", "w", "a", "v">>,
                             <<".", "f", "l", "a", "c">>,
                             <<".", "a", "a", "c">>,
                             <<".", "o", "g", "g">>,
                             <<".", "m", "4", "a">>,
                             <<".", "w", "m", "a">>,
                             <<".", "o", "p", "u", "s">>},
             tool |-> "FFmpeg", icon |-> "",
             formats |-> [k \in {"MP3", "WAV", "FLAC", "AAC", "OGG"} |->
                CASE k = "MP3" -> "mp3"
             [] k = "WAV" -> "wav"
             [] k = "FLAC" -> "flac"
             [] k = "AAC" -> "aac"
             [] k = "OGG" -> "ogg"]]
          [] t = "image" ->
            [extensions |-> {<<".", "j", "p", "g">>,
                             <<".", "j", "p", "e", "g">>,
                             <<".", "p", "n", "g">>,
                             <<".", "g", "i", "f">>,
                             <<".", "b", "m", "p">>,
                             <<".", "w", "e", "b", "p">>,
                             <<".", "s", "v", "g">>,
                             <<".", "t", "i", "f", "f">>},
             tool |-> "PIL/ImageMagick", icon |-> "",
             formats |-> [k \in {"PNG", "JPG", "GIF", "WebP", "BMP"} |->
                CASE k = "PNG" -> "png"
             [] k = "JPG" -> "jpg"
             [] k = "GIF" -> "gif"
             [] k = "WebP" -> "webp"
             [] k = "BMP" -> "bmp"]]
          [] t = "document" ->
            [extensions |-> {<<".", "m", "d">>,
                             <<".", "h", "t", "m", "l">>,
                             <<".", "t", "x", "t">>,
                             <<".", "t", "e", "x">>,
                             <<".", "r", "s", "t">>,
                             <<".", "p", "d", "f">>},
             tool |-> "Pandoc", icon |-> "",
             formats |-> [k \in {"PDF", "HTML", "DOCX"} |->
                CASE k = "PDF" -> "pdf"
             [] k = "HTML" -> "html"
             [] k = "DOCX" -> "docx"]]
          [] t = "office" ->
            [extensions |-> {<<".", "d", "o", "c">>,
                             <<".", "d", "o", "c", "x">>,
                             <<".", "x", "l", "s">>,
                             <<".", "x", "l", "s", "x">>,
                             <<".", "p", "p", "t">>,
                             <<".", "p", "p", "t", "x">>},
             tool |-> "LibreOffice", icon |-> "",
             formats |-> [k \in {"PDF", "DOCX"} |->
                CASE k = "PDF" -> "pdf"
             [] k = "DOCX" -> "docx"]]
          [] t = "ebook" ->
            [extensions |-> {<<".", "e", "p", "u", "b">>,
                             <<".", "m", "o", "b", "i">>,
                             <<".", "a", "z", "w", "3">>,
                             <<".", "p", "d", "f">>},
             tool |-> "Calibre", icon |-> "",
             formats |-> [k \in {"EPUB", "MOBI", "PDF"} |->
                CASE k = "EPUB" -> "epub"
             [] k = "MOBI" -> "mobi"
             [] k = "PDF" -> "pdf"]]]

\* config.settings.FILE_TYPE_MAP
FILE_TYPE_MAP ==
    [t \in {"video", "audio", "image", "document", "office", "ebook"} |->
        CASE t = "video" ->
            [extensions |-> {<<".", "m", "p", "4">>,
                             <<".", "a", "v", "i">>,
                             <<".", "m", "k", "v">>,
                             <<".", "m", "o", "v">>,
                             <<".", "w", "e", "b", "m">>,
                             <<".", "f", "l", "v">>,
                             <<".", "w", "m", "v">>,
                             <<".", "m", "4", "v">>},
             tool |-> "FFmpeg", icon |-> "",
             formats |-> [k \in {"MP4", "AVI", "MKV", "WebM", "MP3"} |->
                CASE k = "MP4" -> "mp4"
             [] k = "AVI" -> "avi"
             [] k = "MKV" -> "mkv"
             [] k = "WebM" -> "webm"
             [] k = "MP3" -> "mp3"]]
          [] t = "audio" ->
            [extensions |-> {<<".", "m", "p", "3">>,
                             <<".", "w", "a", "v">>,
                             <<".", "f", "l", "a", "c">>,
                             <<".", "a", "a", "c">>,
                             <<".", "o", "g", "g">>,
                             <<".", "m", "4", "a">>,
                             <<".", "w", "m", "a">>,
                             <<".", "o", "p", "u", "s">>},
             tool |-> "FFmpeg", icon |-> "",
             formats |-> [k \in {"MP3", "WAV", "FLAC", "AAC", "OGG"} |->
                CASE k = "MP3" -> "mp3"
             [] k = "WAV" -> "wav"
             [] k = "FLAC" -> "flac"
             [] k = "AAC" -> "aac"
             [] k = "OGG" -> "ogg"]]
          [] t = "image" ->
            [extensions |-> {<<".", "j", "p", "g">>,
                             <<".", "j", "p", "e", "g">>,
                             <<".", "p", "n", "g">>,
                             <<".", "g", "i", "f">>,
                             <<".", "b", "m", "p">>,
                             <<".", "w", "e", "b", "p">>,
                             <<".", "s", "v", "g">>,
                             <<".", "t", "i", "f", "f">>},
             tool |-> "PIL/ImageMagick", icon |-> "",
             formats |-> [k \in {"PNG", "JPG", "GIF", "WebP", "BMP"} |->
                CASE k = "PNG" -> "png"
             [] k = "JPG" -> "jpg"
             [] k = "GIF" -> "gif"
             [] k = "WebP" -> "webp"
             [] k = "BMP" -> "bmp"]]
          [] t = "document" ->
            [extensions |-> {<<".", "m", "d">>,
                             <<".", "h", "t", "m", "l">>,
                             <<".", "t", "x", "t">>,
                             <<".", "t", "e", "x">>,
                             <<".", "r", "s", "t">>},
             tool |-> "Pandoc", icon |-> "",
             formats |-> [k \in {"PDF", "HTML", "DOCX"} |->
                CASE k = "PDF" -> "pdf"
             [] k = "HTML" -> "html"
             [] k = "DOCX" -> "docx"]]
          [] t = "office" ->
            [extensions |-> {<<".", "d", "o", "c">>,
                             <<".", "d", "o", "c", "x">>,
                             <<".", "x", "l", "s">>,
                             <<".", "x", "l", "s", "x">>,
                             <<".", "p", "p", "t">>,
                             <<".", "p", "p", "t", "x">>},
             tool |-> "LibreOffice", icon |-> "",
             formats |-> [k \in {"PDF", "DOCX"} |->
                CASE k = "PDF" -> "pdf"
             [] k = "DOCX" -> "docx"]]
          [] t = "ebook" ->
            [extensions |-> {<<".", "e", "p", "u", "b">>,
                             <<".", "m", "o", "b", "i">>,
                             <<".", "a", "z", "w", "3">>,
                             <<".", "p", "d", "f">>},
             tool |-> "Calibre", icon |-> "",
             formats |-> [k \in {"EPUB", "MOBI", "PDF"} |->
                CASE k = "EPUB" -> "epub"
             [] k = "MOBI" -> "mobi"
             [] k = "PDF" -> "pdf"]]]

\* iteration order of FILE_TYPE_MAP.items(): the dict's insertion order
TypeOrder == <<"video", "audio", "image", "document", "office", "ebook">>

Min(S) == CHOOSE x \in S : \A y \in S : x <= y

Max(S) == CHOOSE x \in S : \A y \in S : x >= y

\* pathlib.PurePath.suffix of a file name: from the last dot on, unless that
\* dot is the first or the last character
Suffix(name) ==
    LET dots == {i \in DOMAIN name : name[i] = "."}
    IN  IF dots = {} THEN <<>>
        ELSE LET i == Max(dots)
             IN  IF 1 < i /\ i < Len(name) THEN SubSeq(name, i, Len(name)) ELSE <<>>

Unknown == [file_type |-> "unknown", tool |-> "Unknown", icon |-> "", formats |-> EmptyDict]

detect_exact_case(order, name) ==
    LET ext == Suffix(name)
        hits == {i \in DOMAIN order : ext \in FILE_TYPE_MAP[order[i]].extensions}
    IN  IF hits = {} THEN Unknown
        ELSE LET config == FILE_TYPE_MAP[order[Min(hits)]]
             IN  [file_type |-> order[Min(hits)], tool |-> config.tool,
                  icon |-> config.icon, formats |-> config.formats]

\* FileDetector.detect, with the table iterated in `order`: the first type
\* whose extensions hold the lower-cased suffix
detect_in_order(order, name) ==
    LET ext == Lower(Suffix(name))
        hits == {i \in DOMAIN order : ext \in FILE_TYPE_MAP[order[i]].extensions}
    IN  IF hits = {} THEN Unknown
        ELSE LET config == FILE_TYPE_MAP[order[Min(hits)]]
             IN  [file_type |-> order[Min(hits)], tool |-> config.tool,
                  icon |-> config.icon, formats |-> config.formats]

\* FileDetector.detect
detect(name) == detect_in_order(TypeOrder, name)

ListedExtensions == UNION {FILE_TYPE_MAP[t].extensions : t \in DOMAIN FILE_TYPE_MAP}

\* a listed extension written in lower, upper and mixed case
CaseVariants(e) == {e, Upper(e), MixedCase(e)}

UnlistedExtensions ==
    {<<".", "x", "y", "z">>, <<".", "m", "p">>, <<".", "m", "p", "4", "4">>,
     <<".", "7", "z">>, <<".", "e", "x", "e">>, <<".", "P", "D", "F", "X">>,
     <<".", "j", "p", "e">>}

DetStems == {<<"a">>, <<"a", ".", "b">>, <<"R", "E", "A", "D", "M", "E">>, <<>>}

\* the paths detect is applied to: stem and extension; ext = <<>> is a name
\* without extension
DetPaths ==
    [stem : DetStems,
     ext : UNION {CaseVariants(e) : e \in ListedExtensions} \cup UnlistedExtensions \cup {<<>>}]

PathName(p) == p.stem \o p.ext

NoPath == [stem |-> <<>>, ext |-> <<>>]

NotDetected == [file_type |-> "(not run)", tool |-> "", icon |-> "", formats |-> EmptyDict]

Detect ==
    /\ \E p \in DetPaths :
           /\ det_path' = p
           /\ det_result' = detect(PathName(p))
    /\ UNCHANGED <<regVars, convVars, batchVars, toolVars, built, img_call, threads, single>>

(***************************************************************************)
(* Diagnostic text.  A tool's stderr / stdout is a sequence of lines       *)
(* joined by "\n"; the empty sequence is the empty string.  A line has a   *)
(* length, leading and trailing whitespace (included in the length) and    *)
(* may hold a failure marker ('error' or 'invalid', in any case).          *)
(***************************************************************************)
\* the slice bound of error[:300] and str(e)[:300]
ERROR_LIMIT == 300

\* config.settings.CONVERSION_TIMEOUT
CONVERSION_TIMEOUT == 600

\* length of the longest diagnostic line, exception text and output path tried
LongText == 400

\* lines in a diagnostic stream
MaxLines == 2

PlainLine == [len |-> 20, lead |-> 0, trail |-> 0, marker |-> FALSE]

MarkedLine == [len |-> 30, lead |-> 2, trail |-> 1, marker |-> TRUE]

LongMarkedLine == [len |-> LongText, lead |-> 0, trail |-> 0, marker |-> TRUE]

LongPlainLine == [len |-> LongText, lead |-> 0, trail |-> 0, marker |-> FALSE]

BlankLine == [len |-> 0, lead |-> 0, trail |-> 0, marker |-> FALSE]

DiagLines == {PlainLine, MarkedLine, LongMarkedLine, LongPlainLine, BlankLine}

Texts == UNION {[1..n -> DiagLines] : n \in 0..MaxLines} \ {<<BlankLine>>}

RECURSIVE SumLen(_)
SumLen(t) == IF t = <<>> THEN 0 ELSE Head(t).len + SumLen(Tail(t))

\* len(text): the lines and the newlines between them
TextLen(t) == IF t = <<>> THEN 0 ELSE SumLen(t) + (Len(t) - 1)

\* text.split('\n'): the empty string splits into one empty line
SplitLines(t) == IF t = <<>> THEN <<BlankLine>> ELSE t

\* offset of line i in the text
LineStart(t, i) == IF i = 1 THEN 0 ELSE TextLen(SubSeq(t, 1, i - 1)) + 1

(***************************************************************************)
(* Error messages: a literal, the text of an exception, or a slice         *)
(* [start, start + len) of a diagnostic stream.                            *)
(***************************************************************************)
Literal(id, n) == [kind |-> id, stream |-> "", start |-> 0, len |-> n]

Slice(s, from, n) == [kind |-> "Diagnostic", stream |-> s, start |-> from, len |-> n]

NoMsg == Literal("None", 0)

\* text[:ERROR_LIMIT]
HeadLen(n) == IF n > ERROR_LIMIT THEN ERROR_LIMIT ELSE n

(***************************************************************************)
(* subprocess.run(cmd, capture_output=True, text=True, timeout=...) on a   *)
(* tool that behaves as `tool` says: not installed, not executable,        *)
(* failing to start, or running `duration` seconds and ending with         *)
(* `returncode`.  On timeout subprocess.run kills the child, waits for it  *)
(* and raises TimeoutExpired.                                              *)
(***************************************************************************)
SubprocessRun_no_kill(tool, timeout) ==
    CASE tool.kind = "missing" ->
            [outcome |-> "FileNotFoundError", events |-> <<>>, elapsed |-> 0]
      [] tool.kind = "denied" ->
            [outcome |-> "PermissionError", events |-> <<>>, elapsed |-> 0]
      [] tool.kind = "error" ->
            [outcome |-> "Exception", events |-> <<>>, elapsed |-> 0]
      [] tool.kind = "exit" /\ tool.duration > timeout ->
            [outcome |-> "TimeoutExpired", events |-> <<"spawn">>, elapsed |-> timeout]
      [] tool.kind = "exit" /\ tool.duration <= timeout ->
            [outcome |-> "completed", events |-> <<"spawn", "exit">>,
             elapsed |-> tool.duration]

SubprocessRun(tool, timeout) ==
    CASE tool.kind = "missing" ->
            [outcome |-> "FileNotFoundError", events |-> <<>>, elapsed |-> 0]
      [] tool.kind = "denied" ->
            [outcome |-> "PermissionError", events |-> <<>>, elapsed |-> 0]
      [] tool.kind = "error" ->
            [outcome |-> "Exception", events |-> <<>>, elapsed |-> 0]
      [] tool.kind = "exit" /\ tool.duration > timeout ->
            [outcome |-> "TimeoutExpired", events |-> <<"spawn", "kill">>,
             elapsed |-> timeout]
      [] tool.kind = "exit" /\ tool.duration <= timeout ->
            [outcome |-> "completed", events |-> <<"spawn", "exit">>,
             elapsed |-> tool.duration]

\* the external process is running: started, and neither ended nor killed
ProcessAlive(events) ==
    \E i \in DOMAIN events :
        /\ events[i] = "spawn"
        /\ \A j \in DOMAIN events : j > i => events[j] \notin {"exit", "kill"}

(***************************************************************************)
(* What convert() gives back: (success, error) or an exception that leaves *)
(* it, with the effects it had on the way, in order, and the wall time it  *)
(* took.                                                                   *)
(***************************************************************************)
Returned(ok, msg, ev, dt) ==
    [raised |-> "", success |-> ok, error |-> msg, events |-> ev, elapsed |-> dt]

Raised(exc, ev, dt) ==
    [raised |-> exc, success |-> FALSE, error |-> NoMsg, events |-> ev, elapsed |-> dt]

\* BaseConverter.ensure_output_dir: Path(output_file).parent.mkdir(parents=True,
\* exist_ok=True) creates the directory or raises what the file system answers
ensure_output_dir(job) ==
    IF job.mkdir = "ok"
    THEN [raised |-> "", events |-> <<"mkdir">>]
    ELSE [raised |-> job.mkdir, events |-> <<>>]

\* VideoConverter.convert, the failure branch: the last line holding a marker,
\* stripped; without one the first ERROR_LIMIT characters
VideoError(tool) ==
    LET s == IF TextLen(tool.stderr) > 0 THEN "stderr" ELSE "stdout"
        error == IF s = "stderr" THEN tool.stderr ELSE tool.stdout
        error_lines == SplitLines(error)
        marked == {i \in DOMAIN error_lines : error_lines[i].marker}
    IN  IF marked # {}
        THEN LET i == Max(marked)
                 line == error_lines[i]
             IN  Slice(s, LineStart(error_lines, i) + line.lead,
                       line.len - line.lead - line.trail)
        ELSE Slice(s, 0, HeadLen(TextLen(error)))

\* AudioConverter.convert / DocumentConverter.convert, the failure branch
HeadError(tool) ==
    IF TextLen(tool.stderr) > 0
    THEN Slice("stderr", 0, HeadLen(TextLen(tool.stderr)))
    ELSE Slice("stdout", 0, HeadLen(TextLen(tool.stdout)))

\* VideoConverter.convert
VideoConvert(job, now) ==
    IF ~job.exists
    THEN Returned(FALSE, Literal("Input file not found", 20), <<>>, 0)
    ELSE IF ensure_output_dir(job).raised # ""
    THEN \* raised before the try block: no handler of convert() sees it
         Raised(ensure_output_dir(job).raised, ensure_output_dir(job).events, 0)
    ELSE LET start_time == now
             run == SubprocessRun(job.tool, CONVERSION_TIMEOUT)
             ev == ensure_output_dir(job).events \o run.events
         IN  CASE run.outcome = "completed" ->
                    IF job.tool.returncode = 0
                    THEN Returned(TRUE, NoMsg, ev, run.elapsed)
                    ELSE Returned(FALSE, VideoError(job.tool), ev, run.elapsed)
               [] run.outcome = "TimeoutExpired" ->
                    \* "Conversion timeout after {duration:.0f}s (limit: 600s)"
                    Returned(FALSE, Literal("Conversion timeout", 43), ev,
                             (start_time + run.elapsed) - start_time)
               [] run.outcome = "FileNotFoundError" ->
                    Returned(FALSE, Literal("FFmpeg not found", 46), ev, run.elapsed)
               [] run.outcome = "PermissionError" ->
                    \* f"Permission denied: Cannot write to {output_file}"
                    Returned(FALSE, Literal("Permission denied", 35 + job.out_len), ev,
                             run.elapsed)
               [] run.outcome = "Exception" ->
                    Returned(FALSE, Literal("Exception", HeadLen(job.tool.exc_len)), ev,
                             run.elapsed)

\* AudioConverter.convert
AudioConvert(job, now) ==
    IF ~job.exists
    THEN Returned(FALSE, Literal("Input file not found", 20), <<>>, 0)
    ELSE IF ensure_output_dir(job).raised # ""
    THEN Raised(ensure_output_dir(job).raised, ensure_output_dir(job).events, 0)
    ELSE LET run == SubprocessRun(job.tool, CONVERSION_TIMEOUT)
             ev == ensure_output_dir(job).events \o run.events
         IN  CASE run.outcome = "completed" ->
                    IF job.tool.returncode = 0
                    THEN Returned(TRUE, NoMsg, ev, run.elapsed)
                    ELSE Returned(FALSE, HeadError(job.tool), ev, run.elapsed)
               [] run.outcome = "TimeoutExpired" ->
                    \* "Conversion timeout (>600s)"
                    Returned(FALSE, Literal("Conversion timeout", 26), ev, run.elapsed)
               [] run.outcome = "FileNotFoundError" ->
                    Returned(FALSE, Literal("FFmpeg not found", 46), ev, run.elapsed)
               [] run.outcome \in {"PermissionError", "Exception"} ->
                    Returned(FALSE, Literal("Exception", HeadLen(job.tool.exc_len)), ev,
                             run.elapsed)

\* DocumentConverter.convert
DocumentConvert(job, now) ==
    IF ~job.exists
    THEN Returned(FALSE, Literal("Input file not found", 20), <<>>, 0)
    ELSE IF ensure_output_dir(job).raised # ""
    THEN Raised(ensure_output_dir(job).raised, ensure_output_dir(job).events, 0)
    ELSE LET run == SubprocessRun(job.tool, CONVERSION_TIMEOUT)
             ev == ensure_output_dir(job).events \o run.events
         IN  CASE run.outcome = "completed" ->
                    IF job.tool.returncode = 0
                    THEN Returned(TRUE, NoMsg, ev, run.elapsed)
                    ELSE Returned(FALSE, HeadError(job.tool), ev, run.elapsed)
               [] run.outcome = "TimeoutExpired" ->
                    Returned(FALSE, Literal("Conversion timeout", 26), ev, run.elapsed)
               [] run.outcome = "FileNotFoundError" ->
                    Returned(FALSE, Literal("Pandoc not found", 46), ev, run.elapsed)
               [] run.outcome \in {"PermissionError", "Exception"} ->
                    Returned(FALSE, Literal("Exception", HeadLen(job.tool.exc_len)), ev,
                             run.elapsed)

\* ImageConverter.convert: Pillow in this process, no external tool, no timeout
ImageConvert(job, now) ==
    IF ~job.has_pil
    THEN Returned(FALSE, Literal("PIL/Pillow not installed", 58), <<>>, 0)
    ELSE IF ~job.exists
    THEN Returned(FALSE, Literal("Input file not found", 20), <<>>, 0)
    ELSE IF ensure_output_dir(job).raised # ""
    THEN Raised(ensure_output_dir(job).raised, ensure_output_dir(job).events, 0)
    ELSE IF job.tool.kind = "saved"
    THEN Returned(TRUE, NoMsg,
                  ensure_output_dir(job).events \o <<"pil_open", "pil_save">>,
                  job.tool.duration)
    ELSE \* except Exception as e: str(e)[:300]
         Returned(FALSE, Literal("Exception", HeadLen(job.tool.exc_len)),
                  ensure_output_dir(job).events \o <<"pil_open">>, job.tool.duration)

\* converter.convert(input_file, output_file, settings), by the instance's class
Convert(job, now) ==
    CASE job.cls = "VideoConverter" -> VideoConvert(job, now)
      [] job.cls = "AudioConverter" -> AudioConvert(job, now)
      [] job.cls = "DocumentConverter" -> DocumentConvert(job, now)
      [] job.cls = "ImageConverter" -> ImageConvert(job, now)

(***************************************************************************)
(* The convert() calls tried: each built-in converter, on an input that    *)
(* exists or not, with an output directory that can be created or not, and *)
(* a tool that behaves in each of the ways subprocess.run distinguishes.   *)
(***************************************************************************)
Durations == {1, CONVERSION_TIMEOUT - 1, CONVERSION_TIMEOUT + 1}

Stdouts == {<<>>, <<LongPlainLine>>, <<MarkedLine>>}

ToolOutcome(k, d, rc, err, out, n) ==
    [kind |-> k, duration |-> d, returncode |-> rc, stderr |-> err, stdout |-> out,
     exc_len |-> n]

ProcOutcomes ==
    {ToolOutcome("exit", d, 0, err, <<>>, 0) : d \in Durations, err \in {<<>>, <<PlainLine>>}}
    \cup {ToolOutcome("exit", d, 1, x[1], x[2], 0) :
            d \in Durations \ {CONVERSION_TIMEOUT + 1}, x \in Texts \X Stdouts}
    \cup {ToolOutcome("exit", CONVERSION_TIMEOUT + 1, 1, <<LongMarkedLine>>, <<>>, 0)}
    \cup {ToolOutcome(k, 0, 0, <<>>, <<>>, n) :
            k \in {"missing", "denied", "error"}, n \in {40, LongText}}

PilOutcomes ==
    {ToolOutcome("saved", d, 0, <<>>, <<>>, 0) : d \in {1, CONVERSION_TIMEOUT + 1}}
    \cup {ToolOutcome("error", 1, 0, <<>>, <<>>, n) : n \in {40, LongText}}

MkdirAnswers == {"ok", "PermissionError", "FileExistsError"}

Jobs ==
    [cls : {"VideoConverter", "AudioConverter", "DocumentConverter"}, exists : BOOLEAN,
     mkdir : MkdirAnswers, out_len : {20, LongText}, has_pil : {TRUE},
     tool : ProcOutcomes]
    \cup
    [cls : {"ImageConverter"}, exists : BOOLEAN, mkdir : MkdirAnswers,
     out_len : {20, LongText}, has_pil : BOOLEAN, tool : PilOutcomes]

NoJob == [cls |-> "(none)", exists |-> FALSE, mkdir |-> "ok", out_len |-> 0,
          has_pil |-> FALSE, tool |-> ToolOutcome("(none)", 0, 0, <<>>, <<>>, 0)]

NotCalled == [raised |-> "(not called)", success |-> FALSE, error |-> NoMsg,
              events |-> <<>>, elapsed |-> 0]

\* time already on the clock when convert() is called
StartClocks == {0, CONVERSION_TIMEOUT - 1, 2 * CONVERSION_TIMEOUT}

ConvIdle == conv_job = NoJob /\ conv_res = NotCalled /\ clock = 0

ConvertCall ==
    /\ conv_res = NotCalled
    /\ \E job \in Jobs :
        /\ conv_job' = job
        /\ conv_res' = Convert(job, clock)
        /\ clock' = clock + Convert(job, clock).elapsed
    /\ UNCHANGED <<regVars, detVars, batchVars, toolVars, built, img_call, threads, single>>

(***************************************************************************)
(* Quality presets and the arguments the converters build from settings    *)
(* (video_converter.py 40-66, audio_converter.py 40-49, image_converter.py *)
(* 55-96).                                                                 *)
(***************************************************************************)
\* config.settings.QUALITY_PRESETS
QUALITY_PRESETS ==
    [q \in {"Low", "Medium", "High", "Ultra"} |->
        CASE q = "Low" -> [crf |-> "28", audio_bitrate |-> "128k", image_quality |-> 60]
          [] q = "Medium" -> [crf |-> "23", audio_bitrate |-> "192k", image_quality |-> 80]
          [] q = "High" -> [crf |-> "18", audio_bitrate |-> "256k", image_quality |-> 95]
          [] q = "Ultra" -> [crf |-> "15", audio_bitrate |-> "320k", image_quality |-> 100]]

\* dict.get(key, default)
DictGetDefault(d, k, default) == IF k \in DOMAIN d THEN d[k] ELSE default

\* a value Python takes as true: neither None nor the empty string
Truthy(v) == v \notin {None, ""}

ResolvePreset_default_high(settings) ==
    LET quality_name == DictGetDefault(settings, "quality", "Medium")
    IN  DictGetDefault(QUALITY_PRESETS, quality_name, QUALITY_PRESETS["High"])

\* quality_name = settings.get('quality', 'Medium')
\* preset = QUALITY_PRESETS.get(quality_name, QUALITY_PRESETS['Medium'])
ResolvePreset(settings) ==
    LET quality_name == DictGetDefault(settings, "quality", "Medium")
    IN  DictGetDefault(QUALITY_PRESETS, quality_name, QUALITY_PRESETS["Medium"])

\* VideoConverter.convert: the FFmpeg command
VideoCommand(settings) ==
    LET preset == ResolvePreset(settings)
        resolution == DictGet(settings, "resolution")
        fps == DictGet(settings, "fps")
        codec == DictGet(settings, "codec")
    IN  <<"ffmpeg", "-i", "input_file", "-crf", preset.crf, "-b:a", preset.audio_bitrate>>
        \o (IF Truthy(resolution) /\ resolution # "Original" THEN <<"-s", resolution>> ELSE <<>>)
        \o (IF Truthy(fps) /\ fps # "Original" THEN <<"-r", fps>> ELSE <<>>)
        \o (IF Truthy(codec) THEN <<"-c:v", codec>> ELSE <<>>)
        \o <<"-y", "output_file">>

\* AudioConverter.convert: the FFmpeg command
AudioCommand(settings) ==
    LET preset == ResolvePreset(settings)
    IN  <<"ffmpeg", "-i", "input_file", "-b:a", preset.audio_bitrate, "-y", "output_file">>

\* ImageConverter.convert: the keyword arguments of img.save, by the extension
\* of output_file
ImageSaveKwargs(settings, output_ext) ==
    LET preset == ResolvePreset(settings)
        quality == preset.image_quality
    IN  IF output_ext \in {"jpg", "jpeg"}
        THEN [k \in {"optimize", "quality"} |-> IF k = "optimize" THEN 1 ELSE quality]
        ELSE IF output_ext = "png"
        THEN [k \in {"optimize", "compress_level"} |->
                 IF k = "optimize" THEN 1 ELSE IF quality > 90 THEN 9 ELSE 6]
        ELSE [k \in {"optimize"} |-> 1]

\* what the caller puts under 'quality': a preset name, a name that is none
\* (another word, another case, the empty string, None), or nothing
QualityValues == {"Low", "Medium", "High", "Ultra", "Best", "medium", "", None}

Absent == "(absent)"

\* a settings dict with the keys that are given
MakeSettings(quality, resolution, fps, batch_mode) ==
    LET given == [k \in {"quality", "resolution", "fps", "batch_mode"} |->
                    CASE k = "quality" -> quality
                      [] k = "resolution" -> resolution
                      [] k = "fps" -> fps
                      [] k = "batch_mode" -> batch_mode]
    IN  [k \in {x \in DOMAIN given : given[x] # Absent} |-> given[k]]

VideoSettings ==
    {MakeSettings(q, r, f, Absent) :
        q \in QualityValues \cup {Absent}, r \in {Absent, "Original", "1280x720"},
        f \in {Absent, "Original", "30"}}

\* settings = {'quality': quality, 'batch_mode': True} of the batch, and
\* {'quality': quality} of the single conversion
PlainSettings ==
    {MakeSettings(q, Absent, Absent, b) :
        q \in QualityValues \cup {Absent}, b \in {Absent, "True"}}

NotBuilt == [cls |-> "(none)", settings |-> EmptyDict, output_ext |-> "",
             preset |-> QUALITY_PRESETS["Medium"], cmd |-> <<>>, save_kwargs |-> EmptyDict]

\* the try block of VideoConverter.convert up to the command
BuildVideoCommand ==
    /\ \E s \in VideoSettings \cup PlainSettings :
         built' = [cls |-> "VideoConverter", settings |-> s, output_ext |-> "mp4",
                   preset |-> ResolvePreset(s), cmd |-> VideoCommand(s),
                   save_kwargs |-> EmptyDict]
    /\ UNCHANGED <<regVars, detVars, convVars, batchVars, toolVars, img_call, threads, single>>

\* the try block of AudioConverter.convert up to the command
BuildAudioCommand ==
    /\ \E s \in PlainSettings :
         built' = [cls |-> "AudioConverter", settings |-> s, output_ext |-> "mp3",
                   preset |-> ResolvePreset(s), cmd |-> AudioCommand(s),
                   save_kwargs |-> EmptyDict]
    /\ UNCHANGED <<regVars, detVars, convVars, batchVars, toolVars, img_call, threads, single>>

\* the try block of ImageConverter.convert up to img.save
BuildImageSave ==
    /\ \E s \in PlainSettings, e \in {"jpg", "png", "webp"} :
         built' = [cls |-> "ImageConverter", settings |-> s, output_ext |-> e,
                   preset |-> ResolvePreset(s), cmd |-> <<>>,
                   save_kwargs |-> ImageSaveKwargs(s, e)]
    /\ UNCHANGED <<regVars, detVars, convVars, batchVars, toolVars, img_call, threads, single>>

SettingsIdle == built = NotBuilt

(***************************************************************************)
(* ImageConverter: the pixels.  An image is its size and its Pillow mode;  *)
(* Image.resize and Image.save are Pillow's: resize rejects a size with a  *)
(* dimension below 1 (ValueError), the JPEG writer rejects modes it cannot *)
(* encode (OSError), the PNG writer takes every mode tried here.           *)
(***************************************************************************)
\* width and height of the images opened
MaxDim == 4

ImageModes == {"RGB", "L", "RGBA", "LA", "P", "PA"}

\* modes with an alpha band
HasAlpha(mode) == mode \in {"RGBA", "LA", "PA"}

\* modes that can carry transparency: an alpha band, or a palette
CarriesTransparency(mode) == mode \in {"RGBA", "LA", "P", "PA"}

Picture(w, h, m) == [width |-> w, height |-> h, mode |-> m]

\* settings['resize']: not given or 'Original', a percentage ('50%'), or
\* explicit dimensions ('3x2')
ResizeOptions ==
    {[kind |-> "none", percent |-> 0, width |-> 0, height |-> 0]}
    \cup {[kind |-> "percent", percent |-> p, width |-> 0, height |-> 0] : p \in {50, 75, 100}}
    \cup {[kind |-> "dims", percent |-> 0, width |-> 3, height |-> 2]}

\* img.resize((w, h), Image.Resampling.LANCZOS)
PilResize(img, w, h) ==
    IF w < 1 \/ h < 1
    THEN [raised |-> "ValueError", img |-> img]
    ELSE [raised |-> "", img |-> Picture(w, h, img.mode)]

resize_image_round_up(img, option) ==
    IF option.kind = "percent"
    THEN PilResize(img, (img.width * option.percent + 99) \div 100,
                        (img.height * option.percent + 99) \div 100)
    ELSE PilResize(img, option.width, option.height)

\* ImageConverter._resize_image: int(img.width * percent / 100) truncates
resize_image(img, option) ==
    IF option.kind = "percent"
    THEN LET new_width == (img.width * option.percent) \div 100
             new_height == (img.height * option.percent) \div 100
         IN  PilResize(img, new_width, new_height)
    ELSE \* except ValueError: a warning, and the image as it was
         [raised |-> "", img |-> PilResize(img, option.width, option.height).img]

\* the modes Pillow's JPEG writer encodes, of those tried
JpegModes == {"RGB", "L"}

NotSaved(exc) == [saved |-> FALSE, raised |-> exc, width |-> 0, height |-> 0, mode |-> ""]

\* ImageConverter.convert from Image.open to img.save (image_converter.py
\* 69-96): resize, flatten onto a white RGB background for JPEG, save
OpenResizeSave(src, option, output_ext) ==
    LET resized == IF option.kind # "none"
                   THEN resize_image(src, option)
                   ELSE [raised |-> "", img |-> src]
        img == resized.img
        flat == IF img.mode \in {"RGBA", "LA", "P"} /\ output_ext \in {"jpg", "jpeg"}
                THEN Picture(img.width, img.height, "RGB")
                ELSE img
    IN  IF resized.raised # ""
        THEN NotSaved(resized.raised)       \* except Exception: (False, str(e)[:300])
        ELSE IF output_ext \in {"jpg", "jpeg"} /\ flat.mode \notin JpegModes
        THEN NotSaved("OSError")
        ELSE [saved |-> TRUE, raised |-> "", width |-> flat.width, height |-> flat.height,
              mode |-> flat.mode]

NoImage == [src |-> Picture(0, 0, ""), resize |-> [kind |-> "none", percent |-> 0,
                                                    width |-> 0, height |-> 0],
            output_ext |-> "", out |-> NotSaved("(not called)")]

ImageIdle == img_call = NoImage

\* ImageConverter.convert on an image that opens
ImageCall ==
    /\ img_call = NoImage
    /\ \E w \in 1..MaxDim, h \in 1..MaxDim, m \in ImageModes, o \in ResizeOptions,
          e \in {"jpg", "png"} :
         img_call' = [src |-> Picture(w, h, m), resize |-> o, output_ext |-> e,
                      out |-> OpenResizeSave(Picture(w, h, m), o, e)]
    /\ UNCHANGED <<regVars, detVars, convVars, batchVars, toolVars, built, threads, single>>

(***************************************************************************)
(* ToolChecker.                                                            *)
(***************************************************************************)
\* config.settings.TOOL_COMMANDS
TOOL_COMMANDS ==
    [t \in {"FFmpeg", "ImageMagick", "Pandoc", "LibreOffice", "Calibre", "7-Zip"} |->
        CASE t = "FFmpeg" -> "ffmpeg"
          [] t = "ImageMagick" -> "convert"
          [] t = "Pandoc" -> "pandoc"
          [] t = "LibreOffice" -> "soffice"
          [] t = "Calibre" -> "ebook-convert"
          [] t = "7-Zip" -> "7z"]

is_available_library_only(cache, env, tool_name) ==
    IF tool_name \in DOMAIN cache
    THEN [ret |-> cache[tool_name], cache |-> cache]
    ELSE IF tool_name = "PIL/ImageMagick"
    THEN [ret |-> env.pil, cache |-> DictSet(cache, tool_name, env.pil)]
    ELSE LET cmd == DictGet(TOOL_COMMANDS, tool_name)
         IN  IF cmd = None
             THEN [ret |-> FALSE, cache |-> cache]
             ELSE [ret |-> cmd \in env.which,
                   cache |-> DictSet(cache, tool_name, cmd \in env.which)]

\* ToolChecker.is_available: the answer and the cache it leaves.  env.which is
\* the set of commands shutil.which finds, env.pil whether Pillow imports.
is_available(cache, env, tool_name) ==
    IF tool_name \in DOMAIN cache
    THEN [ret |-> cache[tool_name], cache |-> cache]
    ELSE IF tool_name = "PIL/ImageMagick"
    THEN LET available == env.pil \/ "convert" \in env.which
         IN  [ret |-> available, cache |-> DictSet(cache, tool_name, available)]
    ELSE LET cmd == DictGet(TOOL_COMMANDS, tool_name)
         IN  IF cmd = None
             THEN [ret |-> FALSE, cache |-> cache]
             ELSE [ret |-> cmd \in env.which,
                   cache |-> DictSet(cache, tool_name, cmd \in env.which)]

\* ToolChecker.get_all_tools_status: is_available for each of the six tools in
\* turn, on the same cache
DashboardTools ==
    <<"FFmpeg", "PIL/ImageMagick", "ImageMagick", "Pandoc", "LibreOffice", "Calibre">>

RECURSIVE StatusFrom(_, _, _, _)
StatusFrom(i, cache, env, status) ==
    IF i > Len(DashboardTools)
    THEN [ret |-> status, cache |-> cache]
    ELSE LET r == is_available(cache, env, DashboardTools[i])
         IN  StatusFrom(i + 1, r.cache, env, DictSet(status, DashboardTools[i], r.ret))

get_all_tools_status(cache, env) == StatusFrom(1, cache, env, EmptyDict)

\* The ToolChecker instances of one process (main.py 161-164): each service
\* constructs its own, and main() one more for the dashboard.
Owners == {"main", "single", "batch", "file_info"}

Services == Owners \ {"main"}

\* installs and removals of commands while the process runs
MaxEnvChanges == 1

\* the commands that come and go
Commands == {"ffmpeg", "convert"}

\* file_info['tool'] of the file a service looks at ('Unknown' for a file of
\* unknown type)
QueriedTools == {"FFmpeg", "PIL/ImageMagick", "Unknown"}

NoToolCall == [owner |-> "none", answers |-> EmptyDict]

\* the first answer of the process for each tool stays on record
Remember(seen, answers) ==
    [t \in DOMAIN seen \cup DOMAIN answers |->
        IF t \in DOMAIN seen THEN seen[t] ELSE answers[t]]

\* self.tool_checker.is_available(file_info['tool']) in one of the services
ServiceQuery ==
    /\ \E o \in Services, t \in QueriedTools :
         LET r == is_available(checkers[o], tool_env, t)
             answers == DictSet(EmptyDict, t, r.ret)
         IN  /\ checkers' = [checkers EXCEPT ![o] = r.cache]
             /\ tool_call' = [owner |-> o, answers |-> answers]
             /\ first_answer' = Remember(first_answer, answers)
    /\ UNCHANGED <<tool_env, env_changes>>
    /\ UNCHANGED <<regVars, detVars, convVars, batchVars, built, img_call, threads, single>>

\* show_startup_info(tool_checker) and the Tools Status menu entry of main()
ShowToolsStatus ==
    /\ LET r == get_all_tools_status(checkers["main"], tool_env)
       IN  /\ checkers' = [checkers EXCEPT !["main"] = r.cache]
           /\ tool_call' = [owner |-> "main", answers |-> r.ret]
           /\ first_answer' = Remember(first_answer, r.ret)
    /\ UNCHANGED <<tool_env, env_changes>>
    /\ UNCHANGED <<regVars, detVars, convVars, batchVars, built, img_call, threads, single>>

\* outside the program: a command is installed while the process runs
InstallCommand ==
    /\ env_changes < MaxEnvChanges
    /\ \E c \in Commands \ tool_env.which :
         tool_env' = [tool_env EXCEPT !.which = @ \cup {c}]
    /\ env_changes' = env_changes + 1
    /\ UNCHANGED <<checkers, tool_call, first_answer>>
    /\ UNCHANGED <<regVars, detVars, convVars, batchVars, built, img_call, threads, single>>

\* outside the program: a command is removed while the process runs
RemoveCommand ==
    /\ env_changes < MaxEnvChanges
    /\ \E c \in tool_env.which :
         tool_env' = [tool_env EXCEPT !.which = @ \ {c}]
    /\ env_changes' = env_changes + 1
    /\ UNCHANGED <<checkers, tool_call, first_answer>>
    /\ UNCHANGED <<regVars, detVars, convVars, batchVars, built, img_call, threads, single>>

ToolsIdle ==
    /\ checkers = [o \in Owners |-> EmptyDict]
    /\ tool_env = [which |-> {}, pil |-> FALSE]
    /\ tool_call = NoToolCall
    /\ first_answer = EmptyDict
    /\ env_changes = 0

\* pathlib.PurePath.stem of a file name: the name without its suffix
Stem(name) == SubSeq(name, 1, Len(name) - Len(Suffix(name)))

\* the characters of an output extension, as the names of files are written
ExtChars(ext) ==
    CASE ext = "aac" -> <<"a", "a", "c">>
      [] ext = "avi" -> <<"a", "v", "i">>
      [] ext = "bmp" -> <<"b", "m", "p">>
      [] ext = "docx" -> <<"d", "o", "c", "x">>
      [] ext = "epub" -> <<"e", "p", "u", "b">>
      [] ext = "flac" -> <<"f", "l", "a", "c">>
      [] ext = "gif" -> <<"g", "i", "f">>
      [] ext = "html" -> <<"h", "t", "m", "l">>
      [] ext = "jpg" -> <<"j", "p", "g">>
      [] ext = "mkv" -> <<"m", "k", "v">>
      [] ext = "mobi" -> <<"m", "o", "b", "i">>
      [] ext = "mp3" -> <<"m", "p", "3">>
      [] ext = "mp4" -> <<"m", "p", "4">>
      [] ext = "ogg" -> <<"o", "g", "g">>
      [] ext = "pdf" -> <<"p", "d", "f">>
      [] ext = "png" -> <<"p", "n", "g">>
      [] ext = "wav" -> <<"w", "a", "v">>
      [] ext = "webm" -> <<"w", "e", "b", "m">>
      [] ext = "webp" -> <<"w", "e", "b", "p">>

\* the folder the submitted files are in
InputFolder == "in"

\* the folder the caller picks for the results: the one of the inputs, or
\* another one (OUTPUT_DIR when none is picked)
OutputFolders == {"in", "output"}

InputPath(name) == [folder |-> InputFolder, name |-> name]

\* str(Path(output_folder) / f"{fp_path.stem}.{output_ext}")
OutputFile(folder, name, output_ext) ==
    [folder |-> folder, name |-> Stem(name) \o <<".">> \o ExtChars(output_ext)]

\* the files a convert() call of a built-in converter has written when it
\* returns success: its output_file (img.save(output_file), ffmpeg -y
\* output_file, pandoc -o output_file)
FilesWritten(instance, res, output_file) ==
    IF instance[2] \in BuiltinClasses /\ res.raised = "" /\ res.success
    THEN {output_file}
    ELSE {}

(***************************************************************************)
(* BatchFileConverter._convert_batch(files, output_folder, quality,        *)
(* format_config): one action per way an iteration of the scan can go.     *)
(***************************************************************************)
\* files submitted in one batch
MaxFiles == 3

BatchNames ==
    {<<"a", ".", "m", "p", "4">>, <<"b", ".", "p", "n", "g">>,
     <<"c", ".", "d", "o", "c", "x">>, <<"d", ".", "x", "y", "z">>,
     <<"a", ".", "a", "v", "i">>}

\* filedialog.askopenfilenames: files of one folder, each picked once
BatchFileLists ==
    {f \in UNION {[1..n -> BatchNames] : n \in 1..MaxFiles} :
        \A i, j \in DOMAIN f : i # j => f[i] # f[j]}

BatchFormatConfigs ==
    {[t \in {"video", "image", "office"} |->
         CASE t = "video" -> "mp4" [] t = "image" -> "jpg" [] t = "office" -> "pdf"],
     [t \in {"video"} |-> "mp4"],
     [t \in {"image", "office"} |-> IF t = "image" THEN "png" ELSE "pdf"]}

BatchEnvs ==
    {[which |-> {"ffmpeg", "soffice"}, pil |-> TRUE],
     [which |-> {"soffice"}, pil |-> FALSE],
     [which |-> {"ffmpeg", "convert"}, pil |-> FALSE],
     [which |-> {"ffmpeg", "soffice"}, pil |-> FALSE]}

BatchRegistries == {EmptyDict, [t \in {"office"} |-> "PluginA"]}

\* what a registered plug-in's convert() may do: it is code of the caller
PluginOutcomes ==
    {Returned(TRUE, NoMsg, <<"plugin">>, 1),
     Returned(FALSE, Literal("plugin error", 40), <<"plugin">>, 1),
     Raised("RuntimeError", <<"plugin">>, 1)}

BatchTools(cls) ==
    IF cls = "ImageConverter"
    THEN {ToolOutcome("saved", 1, 0, <<>>, <<>>, 0), ToolOutcome("error", 1, 0, <<>>, <<>>, 40)}
    ELSE {ToolOutcome("exit", d, 0, <<>>, <<>>, 0) : d \in Durations}
         \cup {ToolOutcome("exit", 1, 1, <<MarkedLine>>, <<>>, 0)}

BatchJob(cls, env, e, m, t) ==
    [cls |-> cls, exists |-> e, mkdir |-> m, out_len |-> 20,
     has_pil |-> IF cls = "ImageConverter" THEN env.pil ELSE TRUE, tool |-> t]

\* the states of the file system and of the tool a job of the batch may meet
BatchJobs(cls, env) ==
    {BatchJob(cls, env, TRUE, "ok", t) : t \in BatchTools(cls)}
    \cup {BatchJob(cls, env, FALSE, "ok", t) : t \in {ToolOutcome("(none)", 0, 0, <<>>, <<>>, 0)}}
    \cup {BatchJob(cls, env, TRUE, "PermissionError", t) :
            t \in {ToolOutcome("(none)", 0, 0, <<>>, <<>>, 0)}}

\* converter.convert(str(fp), output_file, settings): every result it can give
ConvertResults(instance, env, now) ==
    IF instance[2] \in BuiltinClasses
    THEN {[job |-> j, res |-> Convert(j, now)] : j \in BatchJobs(instance[2], env)}
    ELSE {[job |-> BatchJob(instance[2], env, TRUE, "ok", ToolOutcome("plugin", 1, 0, <<>>, <<>>, 0)),
           res |-> r] : r \in PluginOutcomes}

Decide_tool_first(name, cache, env, config, custom) ==
    LET d == detect(name)
    IN  IF ~is_available(cache, env, d.tool).ret THEN "no tool"
        ELSE IF d.file_type = "unknown" THEN "unknown"
        ELSE IF DictGet(config, d.file_type) \in {None, ""} THEN "no format"
        ELSE IF get_converter(custom, d.file_type) = RetNone THEN "no converter"
        ELSE "execute"

Decide_unknown_fails(name, cache, env, config, custom) ==
    LET d == detect(name)
    IN  IF d.file_type = "unknown" THEN "no converter"
        ELSE IF ~is_available(cache, env, d.tool).ret THEN "no tool"
        ELSE IF DictGet(config, d.file_type) \in {None, ""} THEN "no format"
        ELSE IF get_converter(custom, d.file_type) = RetNone THEN "no converter"
        ELSE "execute"

\* the chain of checks of one iteration (batch_converter.py 392-421): the
\* first one that matches
Decide(name, cache, env, config, custom) ==
    LET d == detect(name)
    IN  IF d.file_type = "unknown" THEN "unknown"
        ELSE IF ~is_available(cache, env, d.tool).ret THEN "no tool"
        ELSE IF DictGet(config, d.file_type) \in {None, ""} THEN "no format"
        ELSE IF get_converter(custom, d.file_type) = RetNone THEN "no converter"
        ELSE "execute"

Scanning == bpc = "scan" /\ idx < Len(files)

CurrentFile == files[idx + 1]

CurrentDecision ==
    Decide(CurrentFile, tool_cache, batch_env, format_config, custom_converters)

Advance_failure_unreported(branch) ==
    /\ idx' = idx + 1
    /\ progress' = IF branch = "failed: no converter" THEN progress ELSE progress + 1
    /\ fate' = Append(fate, branch)

Advance_retry_failed(branch) ==
    /\ idx' = IF branch = "executed: failed" THEN idx ELSE idx + 1
    /\ progress' = progress + 1
    /\ fate' = Append(fate, branch)

\* progress.update(task, advance=1), and on to the next file
Advance(branch) ==
    /\ idx' = idx + 1
    /\ progress' = progress + 1
    /\ fate' = Append(fate, branch)

SkipUnknown ==
    /\ Scanning
    /\ CurrentDecision = "unknown"
    /\ skipped_count' = skipped_count + 1
    /\ Advance("skipped: unknown type")
    /\ UNCHANGED <<files, output_folder, written, invocations, format_config, batch_env,
                   tool_cache, success_count,
                   failed_count, bpc, convVars>>
    /\ UNCHANGED <<regVars, detVars, toolVars, built, img_call, threads, single>>

SkipNoTool ==
    /\ Scanning
    /\ CurrentDecision = "no tool"
    /\ tool_cache' = is_available(tool_cache, batch_env, detect(CurrentFile).tool).cache
    /\ skipped_count' = skipped_count + 1
    /\ Advance("skipped: tool not installed")
    /\ UNCHANGED <<files, output_folder, written, invocations, format_config, batch_env,
                   success_count, failed_count, bpc,
                   convVars>>
    /\ UNCHANGED <<regVars, detVars, toolVars, built, img_call, threads, single>>

SkipNoFormat ==
    /\ Scanning
    /\ CurrentDecision = "no format"
    /\ tool_cache' = is_available(tool_cache, batch_env, detect(CurrentFile).tool).cache
    /\ skipped_count' = skipped_count + 1
    /\ Advance("skipped: no format configured")
    /\ UNCHANGED <<files, output_folder, written, invocations, format_config, batch_env,
                   success_count, failed_count, bpc,
                   convVars>>
    /\ UNCHANGED <<regVars, detVars, toolVars, built, img_call, threads, single>>

FailNoConverter ==
    /\ Scanning
    /\ CurrentDecision = "no converter"
    /\ tool_cache' = is_available(tool_cache, batch_env, detect(CurrentFile).tool).cache
    /\ failed_count' = failed_count + 1
    /\ Advance("failed: no converter")
    /\ UNCHANGED <<files, output_folder, written, invocations, format_config, batch_env,
                   success_count, skipped_count, bpc,
                   convVars>>
    /\ UNCHANGED <<regVars, detVars, toolVars, built, img_call, threads, single>>

\* converter.convert() returned (success, error)
ExecuteReturns ==
    /\ Scanning
    /\ CurrentDecision = "execute"
    /\ tool_cache' = is_available(tool_cache, batch_env, detect(CurrentFile).tool).cache
    /\ \E c \in ConvertResults(get_converter(custom_converters, detect(CurrentFile).file_type),
                               batch_env, clock) :
        /\ c.res.raised = ""
        /\ conv_job' = c.job
        /\ conv_res' = c.res
        /\ clock' = clock + c.res.elapsed
        /\ invocations' = Append(invocations, idx + 1)
        /\ written' = written \cup
              FilesWritten(get_converter(custom_converters, detect(CurrentFile).file_type),
                           c.res,
                           OutputFile(output_folder, CurrentFile,
                                      format_config[detect(CurrentFile).file_type]))
        /\ IF c.res.success
           THEN /\ success_count' = success_count + 1
                /\ Advance("executed: success")
                /\ UNCHANGED failed_count
           ELSE /\ failed_count' = failed_count + 1
                /\ Advance("executed: failed")
                /\ UNCHANGED success_count
    /\ UNCHANGED <<files, output_folder, format_config, batch_env, skipped_count, bpc>>
    /\ UNCHANGED <<regVars, detVars, toolVars, built, img_call, threads, single>>

\* converter.convert() raised: nothing in _convert_batch catches it, and the
\* except Exception of run() ends the batch (batch_converter.py 188-194)
ExecuteRaises ==
    /\ Scanning
    /\ CurrentDecision = "execute"
    /\ tool_cache' = is_available(tool_cache, batch_env, detect(CurrentFile).tool).cache
    /\ \E c \in ConvertResults(get_converter(custom_converters, detect(CurrentFile).file_type),
                               batch_env, clock) :
        /\ c.res.raised # ""
        /\ conv_job' = c.job
        /\ conv_res' = c.res
        /\ clock' = clock + c.res.elapsed
        /\ invocations' = Append(invocations, idx + 1)
    /\ bpc' = "aborted"
    /\ UNCHANGED <<files, output_folder, written, format_config, batch_env,
                   idx, success_count, failed_count,
                   skipped_count, progress, fate>>
    /\ UNCHANGED <<regVars, detVars, toolVars, built, img_call, threads, single>>

\* the list is exhausted: Notifications.show_batch_complete and the summary
Report ==
    /\ bpc = "scan"
    /\ idx = Len(files)
    /\ bpc' = "report"
    /\ UNCHANGED <<files, output_folder, written, invocations, format_config, batch_env,
                   tool_cache, idx, success_count,
                   failed_count, skipped_count, progress, fate, convVars>>
    /\ UNCHANGED <<regVars, detVars, toolVars, built, img_call, threads, single>>

BatchIdle ==
    /\ files = <<>>
    /\ output_folder = ""
    /\ written = {}
    /\ format_config = EmptyDict
    /\ batch_env = [which |-> {}, pil |-> FALSE]
    /\ tool_cache = EmptyDict
    /\ idx = 0
    /\ success_count = 0
    /\ failed_count = 0
    /\ skipped_count = 0
    /\ progress = 0
    /\ fate = <<>>
    /\ invocations = <<>>
    /\ bpc = "idle"

(***************************************************************************)
(* ConverterFactory called from several threads.  The class has no lock;   *)
(* a thread runs a call statement by statement, and between two statements *)
(* another thread may run.  One dict operation (a lookup, a membership     *)
(* test, a store, a del) is atomic in the interpreter.                     *)
(***************************************************************************)
Threads == {"t1", "t2"}

ThreadTypes == {"video", "custom"}

ThreadOps == {"get", "register", "unregister"}

Frame(op, t, c, pc, local, ret) ==
    [op |-> op, file_type |-> t, arg |-> c, pc |-> pc, converter_class |-> local, ret |-> ret]

NoFrame == Frame("none", None, None, "idle", None, RetNone)

ThreadsIdle == threads = [th \in Threads |-> NoFrame]

At(th, op, pc) == threads[th].op = op /\ threads[th].pc = pc

Goto(th, pc, local, ret) ==
    threads' = [threads EXCEPT ![th] = [@ EXCEPT !.pc = pc, !.converter_class = local, !.ret = ret]]

ThreadFrame == <<converters, reg_call, reg_before, detVars, convVars, batchVars, toolVars, built, img_call, single>>

\* a thread calls get_converter, register_converter or unregister_converter
ThreadCall ==
    /\ \E th \in Threads, op \in ThreadOps, t \in ThreadTypes, c \in PluginClasses \cup {"PlainClass"} :
        /\ threads[th].pc = "idle"
        /\ op # "register" => c = "PluginA"
        /\ threads' = [threads EXCEPT ![th] =
              Frame(op, t, IF op = "register" THEN c ELSE None, "entered", None, RetNone)]
    /\ UNCHANGED custom_converters
    /\ UNCHANGED ThreadFrame

\* the caller takes the result; the thread is free for another call
ThreadReturn ==
    /\ \E th \in Threads :
        /\ threads[th].pc = "done"
        /\ threads' = [threads EXCEPT ![th] = NoFrame]
    /\ UNCHANGED custom_converters
    /\ UNCHANGED ThreadFrame

\* get_converter: converter_class = cls._custom_converters.get(file_type)
GetReadCustom ==
    /\ \E th \in Threads :
        /\ At(th, "get", "entered")
        /\ Goto(th, "read custom", DictGet(custom_converters, threads[th].file_type), RetNone)
    /\ UNCHANGED custom_converters
    /\ UNCHANGED ThreadFrame

\* get_converter: if not converter_class: converter_class = cls._converters.get(file_type)
GetFallBack ==
    /\ \E th \in Threads :
        /\ At(th, "get", "read custom")
        /\ Goto(th, "resolved",
                IF threads[th].converter_class = None
                THEN DictGet(converters, threads[th].file_type)
                ELSE threads[th].converter_class,
                RetNone)
    /\ UNCHANGED custom_converters
    /\ UNCHANGED ThreadFrame

\* get_converter: instantiate and return, or return None
GetInstantiate ==
    /\ \E th \in Threads :
        /\ At(th, "get", "resolved")
        /\ LET cc == threads[th].converter_class
           IN  Goto(th, "done", cc,
                    IF cc # None /\ Instantiable(cc) THEN InstanceOf(cc) ELSE RetNone)
    /\ UNCHANGED custom_converters
    /\ UNCHANGED ThreadFrame

\* register_converter: if not issubclass(converter_class, BaseConverter): return False
RegisterCheck ==
    /\ \E th \in Threads :
        /\ At(th, "register", "entered")
        /\ IF IsSubclassOfBase(threads[th].arg)
           THEN Goto(th, "checked", None, RetNone)
           ELSE Goto(th, "done", None, RetBool(FALSE))
    /\ UNCHANGED custom_converters
    /\ UNCHANGED ThreadFrame

\* register_converter: cls._custom_converters[file_type] = converter_class; return True
RegisterStore ==
    /\ \E th \in Threads :
        /\ At(th, "register", "checked")
        /\ custom_converters' = DictSet(custom_converters, threads[th].file_type, threads[th].arg)
        /\ Goto(th, "done", None, RetBool(TRUE))
    /\ UNCHANGED ThreadFrame

\* unregister_converter: if file_type in cls._custom_converters
UnregisterCheck ==
    /\ \E th \in Threads :
        /\ At(th, "unregister", "entered")
        /\ IF threads[th].file_type \in DOMAIN custom_converters
           THEN Goto(th, "found", None, RetNone)
           ELSE Goto(th, "done", None, RetBool(FALSE))
    /\ UNCHANGED custom_converters
    /\ UNCHANGED ThreadFrame

\* unregister_converter: del cls._custom_converters[file_type]; return True.
\* del of a key that is gone raises KeyError
UnregisterDel ==
    /\ \E th \in Threads :
        /\ At(th, "unregister", "found")
        /\ IF threads[th].file_type \in DOMAIN custom_converters
           THEN /\ custom_converters' = DictDel(custom_converters, threads[th].file_type)
                /\ Goto(th, "done", None, RetBool(TRUE))
           ELSE /\ UNCHANGED custom_converters
                /\ Goto(th, "done", None, RetRaise("KeyError"))
    /\ UNCHANGED ThreadFrame

(***************************************************************************)
(* SingleFileConverter.run: one action per step of the dialogue.  A step   *)
(* that returns ends the run; the reason is kept in single.ended.          *)
(***************************************************************************)
NoInfo == [type |-> None, tool |-> None, formats |-> EmptyDict]

NoRun ==
    [pc |-> "idle", file_path |-> <<>>, exists |-> FALSE, env |-> [which |-> {}, pil |-> FALSE],
     cache |-> EmptyDict, file_info |-> NoInfo, output_format |-> None, output_ext |-> None,
     quality |-> None, output_file |-> [folder |-> "", name |-> <<>>], trail |-> <<>>,
     invoked |-> 0, success |-> FALSE, ended |-> ""]

SingleIdle == single = NoRun

\* a run starts with a fresh ToolChecker cache, in one of the environments
SingleStarts ==
    {[NoRun EXCEPT !.pc = "start", !.env = e] : e \in BatchEnvs}

SingleQualities == {"Low", "Medium", "High", "Ultra"}

Ends(reason) == single' = [single EXCEPT !.pc = "ended", !.ended = reason]

SingleFrame == <<regVars, detVars, convVars, batchVars, toolVars, built, img_call, threads>>

\* FileDetector.get_file_info: None for a path that does not exist
get_file_info(name, exists) ==
    IF ~exists
    THEN NoInfo
    ELSE LET d == detect(name)
         IN  [type |-> d.file_type, tool |-> d.tool, formats |-> d.formats]

\* file_path = self.file_picker.pick_file()
PickFile ==
    /\ single.pc = "start"
    /\ \/ Ends("no file selected")
       \/ \E n \in BatchNames, e \in BOOLEAN :
            single' = [single EXCEPT !.pc = "picked", !.file_path = n, !.exists = e]
    /\ UNCHANGED SingleFrame

\* file_info = self.detector.get_file_info(file_path)
ReadFileInfo ==
    /\ single.pc = "picked"
    /\ LET info == get_file_info(single.file_path, single.exists)
       IN  IF info = NoInfo
           THEN Ends("no file info")
           ELSE single' = [single EXCEPT !.pc = "info", !.file_info = info,
                                          !.trail = Append(@, "file info")]
    /\ UNCHANGED SingleFrame

\* if not self.tool_checker.is_available(file_info['tool'])
CheckTool ==
    /\ single.pc = "info"
    /\ LET a == is_available(single.cache, single.env, single.file_info.tool)
       IN  IF ~a.ret
           THEN single' = [single EXCEPT !.pc = "ended", !.ended = "tool not installed",
                                          !.cache = a.cache]
           ELSE single' = [single EXCEPT !.pc = "tool ok", !.cache = a.cache,
                                          !.trail = Append(@, "tool available")]
    /\ UNCHANGED SingleFrame

\* formats = file_info.get('formats', {}); the format menu, which the user
\* may leave without an answer
SelectFormat ==
    /\ single.pc = "tool ok"
    /\ LET formats == single.file_info.formats
       IN  IF DOMAIN formats = {}
           THEN Ends("no formats")
           ELSE \/ Ends("format cancelled")
                \/ \E f \in DOMAIN formats :
                     single' = [single EXCEPT !.pc = "format", !.output_format = f,
                                               !.output_ext = formats[f],
                                               !.trail = Append(@, "format chosen")]
    /\ UNCHANGED SingleFrame

\* the quality menu
SelectQuality ==
    /\ single.pc = "format"
    /\ \/ Ends("quality cancelled")
       \/ \E q \in SingleQualities :
            single' = [single EXCEPT !.pc = "quality", !.quality = q,
                                      !.trail = Append(@, "quality chosen")]
    /\ UNCHANGED SingleFrame

\* the advanced options, the output folder (OUTPUT_DIR when none is picked),
\* Path(output_folder).mkdir and output_file; a mkdir that raises is caught
\* by the except Exception of run
ChooseFolder ==
    /\ single.pc = "quality"
    /\ \E folder \in OutputFolders, mkdir \in MkdirAnswers :
         IF mkdir # "ok"
         THEN Ends("error")
         ELSE single' = [single EXCEPT !.pc = "folder",
                            !.output_file = OutputFile(folder, single.file_path, single.output_ext)]
    /\ UNCHANGED SingleFrame

\* questionary.confirm("Start conversion?")
Confirm ==
    /\ single.pc = "folder"
    /\ \/ Ends("not confirmed")
       \/ single' = [single EXCEPT !.pc = "confirmed", !.trail = Append(@, "confirmed")]
    /\ UNCHANGED SingleFrame

ConvertFile_retry ==
    /\ single.pc = "confirmed"
    /\ LET converter == get_converter(custom_converters, single.file_info.type)
       IN  IF converter = RetNone
           THEN Ends("no converter")
           ELSE \E c \in ConvertResults(converter, single.env, clock) :
                  single' = [single EXCEPT !.pc = IF c.res.raised = "" /\ ~c.res.success
                                                   THEN "confirmed" ELSE "ended",
                                            !.invoked = IF @ < 2 THEN @ + 1 ELSE @,
                                            !.success = c.res.raised = "" /\ c.res.success,
                                            !.ended = IF c.res.raised # "" THEN "error"
                                                      ELSE "converted"]
    /\ UNCHANGED SingleFrame

\* SingleFileConverter._convert_file, and the end of run
ConvertFile ==
    /\ single.pc = "confirmed"
    /\ LET converter == get_converter(custom_converters, single.file_info.type)
       IN  IF converter = RetNone
           THEN Ends("no converter")
           ELSE \E c \in ConvertResults(converter, single.env, clock) :
                  single' = [single EXCEPT !.pc = "ended",
                                            !.invoked = @ + 1,
                                            !.success = c.res.raised = "" /\ c.res.success,
                                            !.ended = IF c.res.raised # "" THEN "error"
                                                      ELSE "converted"]
    /\ UNCHANGED SingleFrame

(***************************************************************************)
(* Specifications.                                                         *)
(***************************************************************************)
RegIdle ==
    /\ converters = builtin_converters
    /\ custom_converters = EmptyDict
    /\ reg_call = NoCall
    /\ reg_before = EmptyDict

DetIdle == det_path = NoPath /\ det_result = NotDetected

InitRegistry ==
    /\ RegIdle /\ DetIdle /\ ConvIdle /\ BatchIdle /\ ToolsIdle /\ SettingsIdle /\ ImageIdle
    /\ ThreadsIdle /\ SingleIdle

NextRegistry ==
    \/ GetConverterCall
    \/ register_converter
    \/ unregister_converter
    \/ reset_custom_converters
    \/ GetSupportedTypesCall

SpecRegistry == InitRegistry /\ [][NextRegistry]_vars

InitDetect ==
    /\ RegIdle /\ DetIdle /\ ConvIdle /\ BatchIdle /\ ToolsIdle /\ SettingsIdle /\ ImageIdle
    /\ ThreadsIdle /\ SingleIdle

NextDetect == Detect

SpecDetect == InitDetect /\ [][NextDetect]_vars

InitConvert ==
    /\ RegIdle /\ DetIdle /\ BatchIdle /\ ToolsIdle /\ SettingsIdle /\ ImageIdle
    /\ ThreadsIdle /\ SingleIdle
    /\ conv_job = NoJob
    /\ conv_res = NotCalled
    /\ clock \in StartClocks

NextConvert == ConvertCall

SpecConvert == InitConvert /\ [][NextConvert]_vars

InitBatch ==
    /\ converters = builtin_converters
    /\ custom_converters \in BatchRegistries
    /\ reg_call = NoCall
    /\ reg_before = EmptyDict
    /\ DetIdle /\ ConvIdle /\ ToolsIdle /\ SettingsIdle /\ ImageIdle
    /\ ThreadsIdle /\ SingleIdle
    /\ files \in BatchFileLists
    /\ output_folder \in OutputFolders
    /\ written = {}
    /\ format_config \in BatchFormatConfigs
    /\ batch_env \in BatchEnvs
    /\ tool_cache = EmptyDict
    /\ idx = 0
    /\ success_count = 0
    /\ failed_count = 0
    /\ skipped_count = 0
    /\ progress = 0
    /\ fate = <<>>
    /\ invocations = <<>>
    /\ bpc = "scan"

NextBatch ==
    \/ SkipUnknown
    \/ SkipNoTool
    \/ SkipNoFormat
    \/ FailNoConverter
    \/ ExecuteReturns
    \/ ExecuteRaises
    \/ Report

SpecBatch == InitBatch /\ [][NextBatch]_vars

InitTools ==
    /\ RegIdle /\ DetIdle /\ ConvIdle /\ BatchIdle /\ SettingsIdle /\ ImageIdle
    /\ ThreadsIdle /\ SingleIdle
    /\ checkers = [o \in Owners |-> EmptyDict]
    /\ tool_env \in [which : SUBSET Commands, pil : BOOLEAN]
    /\ tool_call = NoToolCall
    /\ first_answer = EmptyDict
    /\ env_changes = 0

NextTools ==
    \/ ServiceQuery
    \/ ShowToolsStatus
    \/ InstallCommand
    \/ RemoveCommand

SpecTools == InitTools /\ [][NextTools]_vars

InitSettings ==
    /\ RegIdle /\ DetIdle /\ ConvIdle /\ BatchIdle /\ ToolsIdle /\ ImageIdle
    /\ ThreadsIdle /\ SingleIdle
    /\ built = NotBuilt

NextSettings ==
    \/ BuildVideoCommand
    \/ BuildAudioCommand
    \/ BuildImageSave

SpecSettings == InitSettings /\ [][NextSettings]_vars

InitImage ==
    /\ RegIdle /\ DetIdle /\ ConvIdle /\ BatchIdle /\ ToolsIdle /\ SettingsIdle
    /\ img_call = NoImage
    /\ ThreadsIdle /\ SingleIdle

NextImage == ImageCall

SpecImage == InitImage /\ [][NextImage]_vars

InitThreads ==
    /\ RegIdle /\ DetIdle /\ ConvIdle /\ BatchIdle /\ ToolsIdle /\ SettingsIdle /\ ImageIdle
    /\ SingleIdle
    /\ threads = [th \in Threads |-> NoFrame]

NextThreads ==
    \/ ThreadCall
    \/ ThreadReturn
    \/ GetReadCustom
    \/ GetFallBack
    \/ GetInstantiate
    \/ RegisterCheck
    \/ RegisterStore
    \/ UnregisterCheck
    \/ UnregisterDel

SpecThreads == InitThreads /\ [][NextThreads]_vars

InitSingle ==
    /\ converters = builtin_converters
    /\ custom_converters \in BatchRegistries
    /\ reg_call = NoCall
    /\ reg_before = EmptyDict
    /\ DetIdle /\ ConvIdle /\ BatchIdle /\ ToolsIdle /\ SettingsIdle /\ ImageIdle
    /\ ThreadsIdle
    /\ single \in SingleStarts

NextSingle ==
    \/ PickFile
    \/ ReadFileInfo
    \/ CheckTool
    \/ SelectFormat
    \/ SelectQuality
    \/ ChooseFolder
    \/ Confirm
    \/ ConvertFile

SpecSingle == InitSingle /\ [][NextSingle]_vars

\* the two workflows of the menu: a behaviour is a batch run or a single run
InitWorkflows == InitBatch \/ InitSingle

NextWorkflows ==
    \/ SkipUnknown
    \/ SkipNoTool
    \/ SkipNoFormat
    \/ FailNoConverter
    \/ ExecuteReturns
    \/ ExecuteRaises
    \/ Report
    \/ PickFile
    \/ ReadFileInfo
    \/ CheckTool
    \/ SelectFormat
    \/ SelectQuality
    \/ ChooseFolder
    \/ Confirm
    \/ ConvertFile

SpecWorkflows == InitWorkflows /\ [][NextWorkflows]_vars

\* the registry alone is the default
Spec == SpecRegistry

(***************************************************************************)
(* Claims about the registry (SpecRegistry).                               *)
(***************************************************************************)
\* what the two tiers say get_converter(t) is, when the override class can be
\* instantiated or there is no override
TierAnswer(t) ==
    IF t \in DOMAIN custom_converters
    THEN InstanceOf(custom_converters[t])
    ELSE IF t \in DOMAIN builtin_converters
    THEN InstanceOf(builtin_converters[t])
    ELSE RetNone

C9_DetectByExtension ==
    det_result # NotDetected =>
        /\ \A t \in DOMAIN FILE_TYPE_MAP :
             \A e \in FILE_TYPE_MAP[t].extensions :
                (det_path.stem # <<>> /\ det_path.ext \in CaseVariants(e)) =>
                    /\ det_result.file_type = t
                    /\ det_result.tool = FILE_TYPE_MAP[t].tool
                    /\ det_result.formats = FILE_TYPE_MAP[t].formats
                    /\ DOMAIN det_result.formats # {}
        /\ det_path.ext \in UnlistedExtensions \cup {<<>>} =>
                    /\ det_result.file_type = "unknown"
                    /\ DOMAIN det_result.formats = {}

\* an upper-case extension detected
C9_Witness ==
    /\ det_path.stem = <<"a", ".", "b">>
    /\ det_path.ext = <<".", "M", "P", "4">>
    /\ det_result.file_type = "video"
    /\ det_result.tool = "FFmpeg"

\* every order the six types of the table can be iterated in
TableOrders ==
    {o \in [1..Len(TypeOrder) -> DOMAIN FILE_TYPE_MAP] :
        \A i, j \in 1..Len(TypeOrder) : i # j => o[i] # o[j]}

\* C10: no extension is listed by two types of FILE_TYPE_MAP, and what detect
\* returns is the same in whatever order the table is iterated.
C10_ExtensionsDisjoint ==
    /\ \A t1, t2 \in DOMAIN FILE_TYPE_MAP :
          t1 # t2 => FILE_TYPE_MAP[t1].extensions \cap FILE_TYPE_MAP[t2].extensions = {}
    /\ det_result # NotDetected =>
          \A o \in TableOrders : detect_in_order(o, PathName(det_path)) = det_result

\* .pdf, which document produces and ebook reads, detected
C10_Witness ==
    /\ det_path.stem = <<"a">>
    /\ det_path.ext = <<".", "p", "d", "f">>
    /\ det_result.file_type = "ebook"

(***************************************************************************)
(* Claims about the batch scan (SpecBatch).                                *)
(***************************************************************************)
\* C2: in a batch over N files every file is visited whatever happens to the
\* earlier ones (a skip, a failed conversion, no converter, an error raised
\* while converting), and the batch reaches its completion report: the scan
\* is never left before the list is exhausted.
C2_ScanNeverAborts ==
    /\ bpc \in {"scan", "report"}
    /\ bpc = "report" => idx = Len(files) /\ Len(fate) = Len(files)

UnknownFiles == {i \in DOMAIN files : detect(files[i]).file_type = "unknown"}

\* C3: when a batch of N files, M of them of unknown type and all the others
\* converted successfully, reaches its report, skipped = M, succeeded = N - M
\* and failed = 0.
C3_UnknownSkippedRestSucceed ==
    (/\ bpc = "report"
     /\ \A i \in DOMAIN files : i \notin UnknownFiles => fate[i] = "executed: success")
    => /\ skipped_count = Cardinality(UnknownFiles)
       /\ success_count = Len(files) - Cardinality(UnknownFiles)
       /\ failed_count = 0

\* three files, one of unknown type, the two others converted
C3_Witness ==
    /\ bpc = "report"
    /\ Len(files) = 3
    /\ Cardinality(UnknownFiles) = 1
    /\ \A i \in DOMAIN files : i \notin UnknownFiles => fate[i] = "executed: success"
    /\ skipped_count = 1
    /\ success_count = 2

\* the tool of a type is installed: its command is found, or, for
\* PIL/ImageMagick, Pillow imports or the convert command is found
Installed(tool) ==
    \/ tool = "PIL/ImageMagick" /\ (batch_env.pil \/ "convert" \in batch_env.which)
    \/ tool \in DOMAIN TOOL_COMMANDS /\ TOOL_COMMANDS[tool] \in batch_env.which

\* the branch the claimed order of checks gives file i
ClaimedBranches(i) ==
    LET d == detect(files[i])
    IN  IF d.file_type = "unknown" THEN {"skipped: unknown type"}
        ELSE IF ~Installed(d.tool) THEN {"skipped: tool not installed"}
        ELSE IF d.file_type \notin DOMAIN format_config
        THEN {"skipped: no format configured"}
        ELSE IF get_converter(custom_converters, d.file_type) = RetNone
        THEN {"failed: no converter"}
        ELSE {"executed: success", "executed: failed"}

\* C4: each file of a batch is decided by the first check that matches, in the
\* order unknown type (skipped), tool unavailable (skipped), no output format
\* configured (skipped), no converter (failed), and is executed, and counted
\* by the outcome of convert(), only when none matched.
C4_ChecksInOrder ==
    /\ \A i \in DOMAIN fate : fate[i] \in ClaimedBranches(i)
    /\ (bpc # "aborted" /\ fate # <<>>
            /\ fate[Len(fate)] \in {"executed: success", "executed: failed"})
          => (fate[Len(fate)] = "executed: success" <=> conv_res.success)
    /\ skipped_count = Cardinality({i \in DOMAIN fate :
            fate[i] \in {"skipped: unknown type", "skipped: tool not installed",
                         "skipped: no format configured"}})
    /\ failed_count = Cardinality({i \in DOMAIN fate :
            fate[i] \in {"failed: no converter", "executed: failed"}})
    /\ success_count = Cardinality({i \in DOMAIN fate : fate[i] = "executed: success"})

\* one batch in which a file was skipped for its tool, one for its format, and
\* one failed for want of a converter
C4_Witness ==
    /\ bpc = "report"
    /\ \E i, j, k \in DOMAIN fate :
        /\ fate[i] = "skipped: tool not installed"
        /\ fate[j] = "skipped: no format configured"
        /\ fate[k] = "failed: no converter"

(***************************************************************************)
(* Claims about convert() of the built-in converters (SpecConvert).        *)
(***************************************************************************)
Called == conv_res # NotCalled

ToolStarted == \E i \in DOMAIN conv_res.events : conv_res.events[i] \in {"spawn", "pil_open"}

\* C5: convert() of every built-in converter on an input path that does not
\* exist returns the failure 'Input file not found', starts no tool or library
\* conversion and does not create the output directory.
C5_MissingInputNotFound ==
    (Called /\ ~conv_job.exists) =>
        /\ conv_res.raised = ""
        /\ ~conv_res.success
        /\ conv_res.error.kind = "Input file not found"
        /\ conv_res.events = <<>>

\* C6: every error message convert() returns is at most 300 characters long,
\* whatever the tool wrote.
C6_ErrorBounded ==
    (Called /\ conv_res.raised = "" /\ ~conv_res.success) =>
        conv_res.error.len <= ERROR_LIMIT

ExternalTool == conv_job.cls \in {"VideoConverter", "AudioConverter", "DocumentConverter"}

\* C7: when the external process of a conversion runs longer than
\* CONVERSION_TIMEOUT, convert() returns a failure that reports a timeout, and
\* once convert() has returned the process is no longer running; a process
\* that ends within CONVERSION_TIMEOUT is never timed out, whatever time was
\* on the clock when convert() was called.
C7_TimeoutPerJob ==
    Called =>
        /\ ~ProcessAlive(conv_res.events)
        /\ (ExternalTool /\ conv_job.exists /\ conv_job.mkdir = "ok"
                /\ conv_job.tool.kind = "exit") =>
            IF conv_job.tool.duration > CONVERSION_TIMEOUT
            THEN /\ conv_res.raised = ""
                 /\ ~conv_res.success
                 /\ conv_res.error.kind = "Conversion timeout"
                 /\ conv_res.events = <<"mkdir", "spawn", "kill">>
                 /\ conv_res.elapsed = CONVERSION_TIMEOUT
            ELSE /\ conv_res.raised = ""
                 /\ conv_res.error.kind # "Conversion timeout"
                 /\ conv_res.events = <<"mkdir", "spawn", "exit">>
                 /\ conv_res.elapsed = conv_job.tool.duration
                 /\ conv_res.success <=> conv_job.tool.returncode = 0

\* a conversion called with time already spent, timed out and killed
C7_Witness ==
    /\ Called
    /\ conv_job.cls = "AudioConverter"
    /\ conv_job.tool.duration = CONVERSION_TIMEOUT + 1
    /\ conv_res.error.kind = "Conversion timeout"
    /\ conv_res.events = <<"mkdir", "spawn", "kill">>
    /\ clock = (CONVERSION_TIMEOUT - 1) + CONVERSION_TIMEOUT

\* C8: the output directory is created before the tool is invoked, and a
\* failure to create it is returned as (False, message): convert() never lets
\* it escape as an exception.
C8_MkdirFailureReturned ==
    Called =>
        /\ conv_res.raised = ""
        /\ ToolStarted => conv_res.events[1] = "mkdir"
        /\ (conv_job.mkdir # "ok" /\ conv_job.exists /\ conv_job.has_pil)
              => ~conv_res.success /\ ~ToolStarted

(***************************************************************************)
(* Claims about tool availability (SpecTools).                             *)
(***************************************************************************)
\* C11: once the process has given an answer for a tool, every later answer
\* for that tool, from any part of the program (dashboard, single conversion,
\* batch conversion, file information), is the same value, even if the tool is
\* installed or removed in between.
C11_SameAnswerProcessWide ==
    \A t \in DOMAIN tool_call.answers : tool_call.answers[t] = first_answer[t]

\* the tools is_available knows: the keys of TOOL_COMMANDS and PIL/ImageMagick
KnownTools == DOMAIN TOOL_COMMANDS \cup {"PIL/ImageMagick"}

\* what the search path and Pillow say of a known tool
FoundNow(t) ==
    IF t = "PIL/ImageMagick"
    THEN tool_env.pil \/ "convert" \in tool_env.which
    ELSE TOOL_COMMANDS[t] \in tool_env.which

\* C12: the answer of a checker for PIL/ImageMagick is true exactly when
\* Pillow imports or the convert command is on the search path, and for any
\* other known tool exactly when its TOOL_COMMANDS command is on the search
\* path, both taken at that checker's first query for the tool: the first
\* query records what is found then, a later one repeats the record.
C12_LibraryOrCommand ==
    [][/\ \A o \in Owners : \A t \in DOMAIN checkers'[o] :
            /\ t \in KnownTools
            /\ checkers'[o][t] = IF t \in DOMAIN checkers[o]
                                 THEN checkers[o][t]
                                 ELSE FoundNow(t)
       /\ \A t \in DOMAIN tool_call'.answers \cap KnownTools :
            tool_call'.answers[t] = checkers'[tool_call'.owner][t]]_vars

\* a service is told PIL/ImageMagick is available with Pillow missing and the
\* convert command installed
C12_Witness ==
    /\ tool_call.owner \in Services
    /\ "PIL/ImageMagick" \in DOMAIN tool_call.answers
    /\ tool_call.answers["PIL/ImageMagick"]
    /\ ~tool_env.pil
    /\ "convert" \in tool_env.which
    /\ env_changes = 0

(***************************************************************************)
(* Further claims about the registry (SpecRegistry).                       *)
(***************************************************************************)
\* the converter contract register_converter tests: a class that inherits
\* from BaseConverter
SatisfiesContract(c) == IsClass(c) /\ IsSubclassOfBase(c)

\* C13: register_converter never raises, whatever it is given (a value that
\* is no class included); it returns False when the argument does not satisfy
\* the converter contract, and True only with the override tier mapping the
\* category to the argument.
C13_RegisterNeverRaises ==
    reg_call.op = "register" =>
        /\ reg_call.ret \in {RetBool(TRUE), RetBool(FALSE)}
        /\ ~SatisfiesContract(reg_call.arg) => reg_call.ret = RetBool(FALSE)
        /\ reg_call.ret = RetBool(TRUE) =>
              DictGet(custom_converters, reg_call.file_type) = reg_call.arg

\* C14: unregister_converter(category) removes the override of the category
\* and returns True when there is one, and returns False, raises nothing and
\* changes nothing when there is none; no register, unregister or reset call
\* changes the built-in tier (video, audio, image, document).
C14_UnregisterFrame ==
    [][/\ converters' = converters
       /\ converters' = builtin_converters
       /\ reg_call'.op = "unregister" =>
            LET t == reg_call'.file_type
            IN  IF t \in DOMAIN custom_converters
                THEN /\ reg_call'.ret = RetBool(TRUE)
                     /\ DOMAIN custom_converters' = DOMAIN custom_converters \ {t}
                     /\ \A x \in DOMAIN custom_converters' :
                            custom_converters'[x] = custom_converters[x]
                ELSE /\ reg_call'.ret = RetBool(FALSE)
                     /\ custom_converters' = custom_converters]_vars

\* the override of video was removed, and one of another category stays
C14_Witness ==
    /\ reg_call.op = "unregister"
    /\ reg_call.file_type = "video"
    /\ reg_call.ret = RetBool(TRUE)
    /\ "video" \notin DOMAIN custom_converters
    /\ "custom" \in DOMAIN custom_converters
    /\ DOMAIN converters = {"video", "audio", "image", "document"}

SkipFates == {"skipped: unknown type", "skipped: tool not installed",
              "skipped: no format configured"}

\* C15: a file for whose category get_converter returns None is treated as a
\* skip: it adds one to the skipped count and nothing to the failed count, and
\* the scan goes on to the next file.
C15_NoConverterIsSkip ==
    /\ skipped_count = Cardinality({i \in DOMAIN fate :
            fate[i] \in SkipFates \cup {"failed: no converter"}})
    /\ failed_count = Cardinality({i \in DOMAIN fate : fate[i] = "executed: failed"})
    /\ bpc # "aborted" => idx = Len(fate)

\* the categories detect can return with a non-empty output-format map
CategoriesWithFormats ==
    {t \in DOMAIN FILE_TYPE_MAP : DOMAIN FILE_TYPE_MAP[t].formats # {}}

\* C16: with no overrides registered get_converter returns a converter for
\* every category that has output formats (video, audio, image, document,
\* office, ebook), so a file of such a category whose tool is installed and
\* whose format is configured is executed, never failed for want of a converter.
C16_EveryCategoryHasExecutor ==
    custom_converters = EmptyDict =>
        /\ \A t \in CategoriesWithFormats :
              get_converter(custom_converters, t) # RetNone
        /\ \A i \in DOMAIN fate :
              LET d == detect(files[i])
              IN  (/\ d.file_type \in CategoriesWithFormats
                   /\ Installed(d.tool)
                   /\ d.file_type \in DOMAIN format_config)
                  => fate[i] \in {"executed: success", "executed: failed"}

\* C19: after k files have been processed succeeded + failed + skipped = k and
\* the progress indicator has advanced k times; when the list is exhausted the
\* three counts sum to the number of submitted files.
C19_CountsSumToProcessed ==
    /\ idx = Len(fate)
    /\ success_count + failed_count + skipped_count = idx
    /\ progress = idx
    /\ bpc = "report" => success_count + failed_count + skipped_count = Len(files)

\* a finished batch of three files: one converted, one failed, one skipped
C19_Witness ==
    /\ bpc = "report"
    /\ Len(files) = 3
    /\ success_count = 1
    /\ failed_count = 1
    /\ skipped_count = 1
    /\ progress = 3

\* C20: no conversion of a batch writes to the path of an input file,
\* whatever output folder and output formats the caller chose.
C20_InputsNeverWritten ==
    \A i \in DOMAIN files : InputPath(files[i]) \notin written

(***************************************************************************)
(* Claims about quality presets (SpecSettings).                            *)
(***************************************************************************)
\* the row the claim gives a quality value: its own for Low, Medium, High and
\* Ultra, the Medium row (CRF 23, 192k, image quality 80) for any other value
\* and for a missing key
ClaimedRow(settings) ==
    LET medium == [crf |-> "23", audio_bitrate |-> "192k", image_quality |-> 80]
    IN  IF "quality" \notin DOMAIN settings THEN medium
        ELSE CASE settings["quality"] = "Low" ->
                    [crf |-> "28", audio_bitrate |-> "128k", image_quality |-> 60]
               [] settings["quality"] = "High" ->
                    [crf |-> "18", audio_bitrate |-> "256k", image_quality |-> 95]
               [] settings["quality"] = "Ultra" ->
                    [crf |-> "15", audio_bitrate |-> "320k", image_quality |-> 100]
               [] OTHER -> medium

\* the argument that follows a flag in a command
ArgOf(cmd, flag) == cmd[1 + CHOOSE i \in DOMAIN cmd : cmd[i] = flag]

\* C17: preset resolution is total: for Low, Medium, High and Ultra the
\* converter uses that row of QUALITY_PRESETS, for any other or missing name
\* the Medium row, and the arguments handed to the tool carry that row; no
\* preset name leaves the converter without a row.
C17_PresetResolutionTotal ==
    built.cls # "(none)" =>
        /\ built.preset = ClaimedRow(built.settings)
        /\ built.cls = "VideoConverter" =>
              /\ ArgOf(built.cmd, "-crf") = ClaimedRow(built.settings).crf
              /\ ArgOf(built.cmd, "-b:a") = ClaimedRow(built.settings).audio_bitrate
        /\ built.cls = "AudioConverter" =>
              ArgOf(built.cmd, "-b:a") = ClaimedRow(built.settings).audio_bitrate
        /\ (built.cls = "ImageConverter" /\ built.output_ext = "jpg") =>
              built.save_kwargs["quality"] = ClaimedRow(built.settings).image_quality

\* a video command built for a preset name that is not in the table
C17_Witness ==
    /\ built.cls = "VideoConverter"
    /\ "quality" \in DOMAIN built.settings
    /\ built.settings["quality"] = "Best"
    /\ ArgOf(built.cmd, "-crf") = "23"
    /\ ArgOf(built.cmd, "-b:a") = "192k"

(***************************************************************************)
(* Further claims about detect (SpecDetect).                               *)
(***************************************************************************)
\* C22: for a path whose extension is not in the table, a path with no
\* extension included, detect returns the category 'unknown', an empty tool
\* identifier and an empty format set, and raises nothing.
C22_UnknownHasEmptyTool ==
    (det_result # NotDetected
        /\ Lower(Suffix(PathName(det_path))) \notin ListedExtensions) =>
        /\ det_result.file_type = "unknown"
        /\ det_result.tool = ""
        /\ DOMAIN det_result.formats = {}

(***************************************************************************)
(* Further claims about convert() (SpecConvert).                           *)
(***************************************************************************)
\* the external tool of the last convert() call ran and ended with a failure
\* status
ToolFailed ==
    /\ Called
    /\ ExternalTool
    /\ conv_job.exists
    /\ conv_job.mkdir = "ok"
    /\ conv_job.tool.kind = "exit"
    /\ conv_job.tool.duration <= CONVERSION_TIMEOUT
    /\ conv_job.tool.returncode # 0

\* the diagnostic output of the tool: stderr, or stdout when stderr is empty
Diagnostic ==
    IF TextLen(conv_job.tool.stderr) > 0 THEN conv_job.tool.stderr ELSE conv_job.tool.stdout

\* C24: when the external tool ends with a failure status, the video, audio
\* and document converters all return the last line of the diagnostic output
\* that holds a failure marker, and the final ERROR_LIMIT characters of the
\* output only when no line holds one.
C24_LastMarkerLineElseTail ==
    ToolFailed =>
        LET lines == SplitLines(Diagnostic)
            marked == {i \in DOMAIN lines : lines[i].marker}
            e == conv_res.error
        IN  /\ conv_res.raised = ""
            /\ ~conv_res.success
            /\ e.kind = "Diagnostic"
            /\ IF marked # {}
               THEN LET i == Max(marked)
                    IN  \* the line, with or without its surrounding blanks
                        /\ e.start >= LineStart(lines, i)
                        /\ e.start <= LineStart(lines, i) + lines[i].lead
                        /\ e.start + e.len >= LineStart(lines, i) + lines[i].len - lines[i].trail
                        /\ e.start + e.len <= LineStart(lines, i) + lines[i].len
               ELSE /\ e.len = HeadLen(TextLen(Diagnostic))
                    /\ e.start = TextLen(Diagnostic) - e.len

(***************************************************************************)
(* Claims about the tool gate of the batch scan (SpecBatch).               *)
(***************************************************************************)
\* C28: a file that passes the tool gate is never counted failed because the
\* backend of its converter is missing: an image file with the convert
\* command installed and Pillow missing is skipped, not failed by
\* ImageConverter for want of Pillow.
C28_ToolGateSound ==
    ~(/\ fate # <<>>
      /\ fate[Len(fate)] = "executed: failed"
      /\ conv_job.cls = "ImageConverter"
      /\ conv_res.error.kind = "PIL/Pillow not installed")

(***************************************************************************)
(* Claims about image conversion (SpecImage).                              *)
(***************************************************************************)
HalfToJpeg ==
    /\ img_call # NoImage
    /\ img_call.resize.kind = "percent"
    /\ img_call.resize.percent = 50
    /\ img_call.output_ext = "jpg"

CallOn(op, c) == reg_call.op = op /\ reg_call.file_type = c

ExecutedFates == {"executed: success", "executed: failed"}

\* the files handled so far whose handling called the converter
ExecutedSoFar == {i \in 1..Len(fate) : fate[i] \in ExecutedFates}

\* what has been called and advanced agrees with what has been handled
HandledInOrder ==
    /\ \A i, j \in DOMAIN invocations : i < j => invocations[i] < invocations[j]
    /\ \A k \in DOMAIN invocations : invocations[k] \in 1..Len(files)
    /\ progress = Len(fate)
    /\ idx = Len(fate)
    /\ idx <= Len(files)
    /\ IF bpc = "aborted"
       THEN {invocations[k] : k \in DOMAIN invocations} = ExecutedSoFar \cup {idx + 1}
       ELSE {invocations[k] : k \in DOMAIN invocations} = ExecutedSoFar

\* a step of the batch handles the file at idx + 1 and no other: it calls the
\* converter at most once, for that file, and advances the progress indicator
\* exactly when it finishes the file
StepHandlesNextFile ==
    /\ idx' \in {idx, idx + 1}
    /\ progress' - progress = idx' - idx
    /\ Len(invocations') <= Len(invocations) + 1
    /\ Len(invocations') = Len(invocations) + 1 =>
          /\ invocations'[Len(invocations')] = idx + 1
          /\ Len(fate) = idx

\* C25: a batch handles its files one at a time in submission order: the
\* converter of a file is called only when every earlier file has been
\* handled, no file's converter is called twice (a failed job is not
\* retried), and the progress indicator is advanced once per handled file,
\* when its handling is complete.
C25_OneAtATimeInOrder == []HandledInOrder /\ [][StepHandlesNextFile]_vars

\* three files, the first failed and the second and third converted: one call
\* each, in order
C25_Witness ==
    /\ bpc = "report"
    /\ Len(files) = 3
    /\ fate = <<"executed: failed", "executed: success", "executed: success">>
    /\ invocations = <<1, 2, 3>>
    /\ progress = 3

\* the output_file of the i-th submitted file (batch_converter.py 413)
OutputFileOf(i) ==
    OutputFile(output_folder, files[i], format_config[detect(files[i]).file_type])

\* C27: within one batch, two different input files that are both executed
\* never have the same output file (output_folder / stem.ext), so no output
\* written earlier in the batch is overwritten by a later job.
C27_OutputPathsDistinct ==
    \A i, j \in ExecutedSoFar :
        files[i] # files[j] => OutputFileOf(i) # OutputFileOf(j)

(***************************************************************************)
(* Claims about the registry under concurrent calls (SpecThreads).         *)
(***************************************************************************)
Finished(th, op) == At(th, op, "done")

\* C26: when register_converter, unregister_converter and get_converter run
\* interleaved from several threads no call raises; of two concurrent
\* unregister_converter(c) calls at most one returns True; and a concurrent
\* get_converter(c) never returns none for a category with a built-in.
C26_ConcurrentCallsSafe ==
    /\ \A th \in Threads : threads[th].pc = "done" => threads[th].ret[1] # "raise"
    /\ \A th \in Threads :
          (Finished(th, "get") /\ threads[th].file_type \in DOMAIN builtin_converters) =>
              threads[th].ret # RetNone

(***************************************************************************)
(* Claims about the single-file workflow (SpecSingle, SpecWorkflows).      *)
(***************************************************************************)
StepsBeforeConvert ==
    <<"file info", "tool available", "format chosen", "quality chosen", "confirmed">>

IsPrefix(s, t) == Len(s) <= Len(t) /\ \A i \in DOMAIN s : s[i] = t[i]

\* C30: in the single-file workflow a converter is invoked at most once per
\* run, and only after file info was read, the tool was reported available,
\* the format set was non-empty and a format was chosen, a quality was chosen
\* and the user confirmed, in this order; a run in which one of these steps
\* fails or is cancelled ends without invoking a converter.
C30_ConvertOnceAfterAllSteps ==
    /\ single.invoked \in {0, 1}
    /\ IsPrefix(single.trail, StepsBeforeConvert)
    /\ single.invoked = 1 =>
          /\ single.pc = "ended"
          /\ single.trail = StepsBeforeConvert
          /\ single.file_info # NoInfo
          /\ is_available(single.cache, single.env, single.file_info.tool).ret
          /\ DOMAIN single.file_info.formats # {}
          /\ single.output_format \in DOMAIN single.file_info.formats
          /\ single.quality \in SingleQualities
    /\ (single.pc = "ended" /\ single.trail # StepsBeforeConvert) => single.invoked = 0
    /\ single.ended \in {"no file selected", "no file info", "tool not installed", "no formats",
                         "format cancelled", "quality cancelled", "not confirmed"} =>
          single.invoked = 0

\* a video was converted after the five steps
C30_Witness ==
    /\ single.pc = "ended"
    /\ single.ended = "converted"
    /\ single.invoked = 1
    /\ single.success
    /\ single.file_info.type = "video"
    /\ single.trail = StepsBeforeConvert

\* a file no conversion is offered for: its category is 'unknown', or the
\* category has no output formats
NothingOffered(name) ==
    LET d == detect(name)
    IN  d.file_type = "unknown" \/ DOMAIN d.formats = {}

\* C21: no converter is invoked for a file whose category is 'unknown' or has
\* an empty output-format set, in the batch workflow and in the single-file
\* workflow; in the batch workflow every such file is counted as skipped.
C21_NothingOfferedNeverConverted ==
    LET none == {i \in 1..Len(fate) : NothingOffered(files[i])}
    IN  /\ \A k \in DOMAIN invocations :
              invocations[k] \notin none /\ invocations[k] <= Len(fate) + 1
        /\ bpc = "aborted" => ~NothingOffered(files[idx + 1])
        /\ \A i \in none : fate[i] = "skipped: unknown type"
        /\ skipped_count >= Cardinality(none)
        /\ single.invoked > 0 =>
              /\ single.file_info.type # "unknown"
              /\ DOMAIN single.file_info.formats # {}
        /\ (single.pc = "ended" /\ single.file_info # NoInfo
                /\ NothingOffered(single.file_path)) =>
              /\ single.invoked = 0
              /\ single.ended \in {"tool not installed", "no formats"}

\* a batch of a video, an unknown file and an image: the unknown one skipped,
\* the other two converted
C21_Witness ==
    /\ bpc = "report"
    /\ Len(files) = 3
    /\ detect(files[2]).file_type = "unknown"
    /\ fate = <<"executed: success", "skipped: unknown type", "executed: success">>
    /\ invocations = <<1, 3>>
    /\ skipped_count = 1

=============================================================================
